---- MODULE Spec2Model ----
(***************************************************************************)
(* Bulk scrape orchestrators and their progress trackers.                  *)
(*                                                                         *)
(*   LITFL  (scrapers/litfl/litfl_bulk_scrape.py): the tracker has no      *)
(*          lock; only the main thread touches it, while it collects the   *)
(*          futures of the worker pool.  Progress and errors are kept on   *)
(*          disk between runs (bulk_scrape_log.json,                       *)
(*          bulk_scrape_errors.json).                                      *)
(*   ALiEM  (scrapers/aliem/aliem_bulk_scrape.py): the workers report to   *)
(*          the tracker themselves, under tracker.lock; save() runs on     *)
(*          the main thread and takes no lock.                             *)
(*                                                                         *)
(* Slugs are the integers 1..NumSlugs; a run of LITFL is one process, and  *)
(* several runs follow each other over the same files.                     *)
(***************************************************************************)
EXTENDS Integers, Sequences, FiniteSets, TLC

\* ------------------------------------------------------------------ bounds
NumSlugs == 3        \* entries of the discovery file
MaxRuns == 2         \* LITFL processes run one after the other
MaxWorkers == 2      \* --workers
MaxLimit == 1        \* --limit ranges over 0..MaxLimit (0: no limit)
NumPages == 26       \* entries of a run whose checkpoints are counted
DelayTicks == 2      \* the inter-dispatch delay, in clock ticks
MaxTime == 12        \* the clock stops here
NumSources == 2      \* nested sitemaps / journals
MaxEntries == 2      \* entries one sitemap / journal lists
NumBatches == 2      \* import requests one indexer run has to submit
MaxWait == 100       \* max_wait of _poll_operation, in seconds
MaxLatency == 1      \* seconds one GET of the operation may take
MaxUris == 52        \* documents to import, at most
MaxNodes == 3        \* children of a page's content element

\* -------------------------------------------------------- program constants
save_interval == 25

\* _index_via_import: max_retries; batch_import: range(8) / range(10), and
\* the caps of min((2**attempt) * 3, cap)
max_retries == 5
a_max_attempts == 8
r_max_attempts == 10
a_max_wait == 90
r_max_wait == 120

\* batch_import(uris, batch_size=25)
batch_size == 25

Slugs == 1..NumSlugs

\* discovery["urls"], the slug of each entry
all_urls == [i \in 1..NumSlugs |-> i]

\* what extract_page(slug) does in one attempt
Outcomes == {"success", "none", "raise"}

VARIABLES
    \* ---- LITFL
    pc,              \* position of the main thread ("idle": no process runs)
    run,             \* number of processes started so far
    args,            \* the parsed command line of the running process
    tracker,         \* ProgressTracker: [completed: set, errors: dict]
    slugs_to_scrape, \* the list main() builds
    futures,         \* one future per entry of slugs_to_scrape
    completed,       \* main()'s local counter
    errors,          \* main()'s local counter
    saveRet,         \* where save() returns to: "collect" or "final"
    PROGRESS_FILE,   \* bulk_scrape_log.json
    ERROR_FILE,      \* bulk_scrape_errors.json
    \* ---- history (not read by any action's guard or effect on the program)
    loaded,          \* what load() read at the start of this run
    outcome,         \* this run's extraction outcome per slug ("untried")
    how,             \* how the process ended, once pc = "done"
    prevArgs,        \* the command line of the previous process
    prevCompleted,   \* tracker.completed when the previous process exited
    prevFile,        \* completed_slugs of PROGRESS_FILE when it exited
    lastAttempt      \* per slug, the outcome of its latest attempt in earlier runs

litflVars == <<pc, run, args, tracker, slugs_to_scrape, futures, completed,
               errors, saveRet, PROGRESS_FILE, ERROR_FILE, loaded, outcome, how,
               prevArgs, prevCompleted, prevFile, lastAttempt>>

VARIABLES
    \* ---- ALiEM ("off" when the LITFL scraper is the one that runs)
    a_pc,            \* position of the main thread
    a_resume,        \* args.resume
    a_processed,     \* slugs whose processed/<slug>.json exists
    a_futures,       \* per slug: the state of its future
    a_w,             \* per pool thread: [pc, slug, op, tmp]
    a_tracker,       \* ProgressTracker: counters, errors, results
    a_lock,          \* tracker.lock: 0 when free, else the thread that holds it
    a_snap,          \* the dict save() is building
    a_saveRet,       \* where save() returns to
    a_LOG_FILE,      \* bulk_scrape_log.json
    a_ERROR_FILE,    \* bulk_scrape_errors.json
    \* ---- history
    a_outcome,       \* per slug, what its worker did with it
    a_extracted      \* slugs that were passed to extract_page

aliemVars == <<a_pc, a_resume, a_processed, a_futures, a_w, a_tracker, a_lock, a_snap,
               a_saveRet, a_LOG_FILE, a_ERROR_FILE, a_outcome, a_extracted>>

VARIABLES
    \* ---- checkpoints of one run, counted ("off" when another part runs)
    ck_pc,           \* position of the main thread
    ck_scraper,      \* "litfl" or "aliem"
    ck_started,      \* entries a pool thread has taken
    ck_recorded,     \* entries whose scrape_slug has returned
    ck_collected,    \* futures the as_completed loop has handled
    ck_saves,        \* history: the count main() saw at each periodic save()
    ck_final         \* history: calls of save() after the loop

ckVars == <<ck_pc, ck_scraper, ck_started, ck_recorded, ck_collected, ck_saves, ck_final>>

CheckpointOff ==
    /\ ck_pc = "off"
    /\ ck_scraper = "litfl"
    /\ ck_started = 0
    /\ ck_recorded = 0
    /\ ck_collected = 0
    /\ ck_saves = <<>>
    /\ ck_final = 0

VARIABLES
    \* ---- submissions of one run against a clock ("off" when another part runs)
    pa_pc,           \* position of the main thread
    pa_scraper,      \* "pmc" or "litfl"
    pa_now,          \* the clock, in ticks
    pa_wake,         \* when the running time.sleep() may return
    pa_started,      \* work items a pool thread has taken
    pa_finished,     \* work items whose function has returned
    pa_collected,    \* futures the as_completed loop has handled
    pa_times         \* history: the clock at each executor.submit

paVars == <<pa_pc, pa_scraper, pa_now, pa_wake, pa_started, pa_finished, pa_collected,
            pa_times>>

PacingOff ==
    /\ pa_pc = "off"
    /\ pa_scraper = "pmc"
    /\ pa_now = 0
    /\ pa_wake = 0
    /\ pa_started = 0
    /\ pa_finished = 0
    /\ pa_collected = 0
    /\ pa_times = <<>>

VARIABLES
    \* ---- discovery ("off" when another part runs)
    di_pc,           \* position of the discovery run
    di_scraper,      \* "litfl" (sitemaps) or "pmc" (journals)
    di_sources,      \* per sitemap / journal: the keys it lists, in order
    di_i,            \* the sitemap / journal the loop is at
    di_all,          \* all_urls / all_articles: entries [key, source]
    di_fetched,      \* history: the sources that were fetched and parsed
    di_manifest      \* the "urls" / "articles" list of the discovery file

diVars == <<di_pc, di_scraper, di_sources, di_i, di_all, di_fetched, di_manifest>>

NoManifest == [st |-> "absent", data |-> <<>>]

DiscoveryOff ==
    /\ di_pc = "off"
    /\ di_scraper = "litfl"
    /\ di_sources = <<>>
    /\ di_i = 1
    /\ di_all = <<>>
    /\ di_fetched = {}
    /\ di_manifest = NoManifest


VARIABLES
    \* ---- corpus indexing ("off" when another part runs)
    ix_pc,           \* position of the indexer run
    ix_importer,     \* "litfl", "aliem", "rebelem" or "api"
    ix_batch,        \* the batch (LITFL: the file) the loop is at
    ix_attempt,      \* attempt, the variable of the retry loop
    ix_resps,        \* history: per batch, the answers to its POSTs
    ix_waits,        \* history: per batch, the delays slept between POSTs
    ix_result,       \* per batch, what the importer recorded about it
    ix_ops,          \* the corpus: batches whose import operation is running
    ix_overlap       \* history: a POST was sent while an operation was running

ixVars == <<ix_pc, ix_importer, ix_batch, ix_attempt, ix_resps, ix_waits,
            ix_result, ix_ops, ix_overlap>>

IndexerOff ==
    /\ ix_pc = "off"
    /\ ix_importer = "litfl"
    /\ ix_batch = 1
    /\ ix_attempt = 0
    /\ ix_resps = <<>>
    /\ ix_waits = <<>>
    /\ ix_result = <<>>
    /\ ix_ops = {}
    /\ ix_overlap = FALSE


VARIABLES
    \* ---- one accepted import and its polling ("off" when another part runs)
    po_pc,           \* position: "post", "poll", "returned", "reported"
    po_indexer,      \* "pmc", "wikem" or "litfl"
    po_op,           \* the remote operation: "none", "running", "ok", "error"
    po_now,          \* time.time(), in seconds
    po_start,        \* start of _poll_operation
    po_interval,     \* poll_interval
    po_sleeps,       \* history: the delays slept between polls
    po_why,          \* history: why _poll_operation returned
    po_ret,          \* what _poll_operation returned
    po_reported      \* what the import function returned for the batch

poVars == <<po_pc, po_indexer, po_op, po_now, po_start, po_interval, po_sleeps,
            po_why, po_ret, po_reported>>

PollOff ==
    /\ po_pc = "off"
    /\ po_indexer = "pmc"
    /\ po_op = "none"
    /\ po_now = 0
    /\ po_start = 0
    /\ po_interval = 0
    /\ po_sleeps = <<>>
    /\ po_why = "none"
    /\ po_ret = "none"
    /\ po_reported = "none"


VARIABLES
    \* ---- batching of an import ("off" when another part runs)
    ba_pc,           \* "loop" or "done"
    ba_importer,     \* "rebelem" (batch_import) or "pmc" (import_gcs_to_corpus)
    ba_uris,         \* the documents to import, in order
    ba_i,            \* i of "for i in range(0, len(uris), batch_size)"
    ba_calls         \* history: the documents each import call carried

baVars == <<ba_pc, ba_importer, ba_uris, ba_i, ba_calls>>

BatchingOff ==
    /\ ba_pc = "off"
    /\ ba_importer = "rebelem"
    /\ ba_uris = <<>>
    /\ ba_i = 0
    /\ ba_calls = <<>>


VARIABLES
    \* ---- extraction of a page ("off" when another part runs)
    ex_pc,           \* "run" or "done"
    ex_scraper,      \* "litfl", "wikem", "rebelem" or "aliem"
    ex_page,         \* the children of the content element of the fetched HTML
    ex_now,          \* the clock _now_iso() reads
    ex_results       \* what extract_page returned, one entry per extraction

exVars == <<ex_pc, ex_scraper, ex_page, ex_now, ex_results>>

ExtractionOff ==
    /\ ex_pc = "off"
    /\ ex_scraper = "litfl"
    /\ ex_page = <<>>
    /\ ex_now = 0
    /\ ex_results = <<>>


VARIABLES
    \* ---- page fetches of a bulk scrape ("off" when another part runs)
    fe_pc,           \* "run"
    fe_gets,         \* history: per slug, the outcomes of its GETs
    fe_status        \* per slug, the status scrape_slug returned

feVars == <<fe_pc, fe_gets, fe_status>>

FetchOff ==
    /\ fe_pc = "off"
    /\ fe_gets = <<>>
    /\ fe_status = <<>>


VARIABLES
    \* ---- accounting of a WikEM / PMC bulk scrape ("off" when another part runs)
    ac_pc,           \* "collect" or "done"
    ac_scraper,      \* "wikem" or "pmc"
    ac_force,        \* --force
    ac_cached,       \* slugs whose processed/<slug>.json exists
    ac_futures,      \* per slug, the state of its future
    ac_w,            \* per pool thread: where it is in scrape_single
    ac_tracker,      \* the counters scraped, skipped, errors
    ac_lock,         \* tracker.lock: 0 when free, else the thread holding it
    ac_outcome       \* history: per slug, what scrape_single made of it

acVars == <<ac_pc, ac_scraper, ac_force, ac_cached, ac_futures, ac_w, ac_tracker,
            ac_lock, ac_outcome>>

AccountingOff ==
    /\ ac_pc = "off"
    /\ ac_scraper = "wikem"
    /\ ac_force = FALSE
    /\ ac_cached = {}
    /\ ac_futures = <<>>
    /\ ac_w = <<>>
    /\ ac_tracker = [scraped |-> 0, skipped |-> 0, errors |-> 0]
    /\ ac_lock = 0
    /\ ac_outcome = <<>>


VARIABLES
    \* ---- PMC re-index ("off" when another part runs)
    re_pc,           \* the step reindex() is at, "returned" once it is over
    re_flags,        \* skip_upload, upload_only, dry_run
    re_config,       \* corpus_name of the saved config: "none", "old", "new"
    re_corpora,      \* the corpora that exist on the remote side
    re_import,       \* what import_gcs_to_corpus returned: "none", "ok", "failed"
    re_how           \* history: where reindex() returned

reVars == <<re_pc, re_flags, re_config, re_corpora, re_import, re_how>>

ReindexOff ==
    /\ re_pc = "off"
    /\ re_flags = [skip_upload |-> FALSE, upload_only |-> FALSE, dry_run |-> FALSE]
    /\ re_config = "none"
    /\ re_corpora = {}
    /\ re_import = "none"
    /\ re_how = ""

moreVars == <<ckVars, paVars, diVars, ixVars, poVars, baVars, exVars, feVars, acVars, reVars>>

MoreOff == CheckpointOff /\ PacingOff /\ DiscoveryOff /\ IndexerOff /\ PollOff /\ BatchingOff /\ ExtractionOff /\ FetchOff /\ AccountingOff /\ ReindexOff

vars == <<litflVars, aliemVars, moreVars>>

\* ------------------------------------------------------------ dict helpers
\* A Python dict slug -> record keeps insertion order: a sequence of records
\* with distinct slugs.
Keys(d) == {d[i].slug : i \in 1..Len(d)}

KeyList(d) == [i \in 1..Len(d) |-> d[i].slug]

DictSet(d, rec) ==
    IF rec.slug \in Keys(d)
    THEN [i \in 1..Len(d) |-> IF d[i].slug = rec.slug THEN rec ELSE d[i]]
    ELSE Append(d, rec)

Elems(s) == {s[i] : i \in 1..Len(s)}

RECURSIVE Sorted(_)
Sorted(S) ==
    IF S = {} THEN <<>>
    ELSE LET m == CHOOSE x \in S : \A y \in S : x <= y
         IN <<m>> \o Sorted(S \ {m})

\* ------------------------------------------------------- ProgressTracker
NewTracker == [completed |-> {}, errors |-> <<>>]

Absent == [st |-> "absent", data |-> <<>>]

\* open(path, "w"): the file exists and is empty until the dump is written
Truncated == [st |-> "partial", data |-> <<>>]

\* ProgressTracker.load
LoadCompleted(t) ==
    IF PROGRESS_FILE.st = "ok"
    THEN [t EXCEPT !.completed = Elems(PROGRESS_FILE.data)]
    ELSE t

LoadErrors(t) ==
    IF ERROR_FILE.st = "ok" THEN [t EXCEPT !.errors = ERROR_FILE.data] ELSE t

\* json.load of a file that was opened for writing and never written raises
LoadRaises ==
    \/ PROGRESS_FILE.st = "partial"
    \/ PROGRESS_FILE.st # "partial" /\ ERROR_FILE.st = "partial"

\* ProgressTracker.mark_completed
mark_completed(t, slug) == [t EXCEPT !.completed = @ \cup {slug}]

\* ProgressTracker.mark_error
mark_error(t, slug, error) ==
    [t EXCEPT !.errors = DictSet(@, [slug |-> slug, error |-> error, ts |-> run])]

\* ProgressTracker.is_completed
is_completed(t, slug) == slug \in t.completed

\* ------------------------------------------------------------ scrape_slug
NoResult == [slug |-> 0, status |-> "", error |-> ""]

\* scrape_slug without its try/except: the exception stays in the future
scrape_slug_no_except(slug, o) ==
    CASE o = "success" -> [slug |-> slug, status |-> "success", error |-> ""]
      [] o = "none"    -> [slug |-> slug, status |-> "error",
                           error |-> "extract_page returned None"]
      [] o = "raise"   -> [slug |-> slug, status |-> "exception", error |-> "str(e)"]

\* What the future of scrape_slug(slug) holds when extract_page does o: a
\* result dict; "exception" stands for a future that holds an exception, which
\* the try/except of scrape_slug never lets happen.
scrape_slug(slug, o) ==
    CASE o = "success" -> [slug |-> slug, status |-> "success", error |-> ""]
      [] o = "none"    -> [slug |-> slug, status |-> "error",
                           error |-> "extract_page returned None"]
      [] o = "raise"   -> [slug |-> slug, status |-> "error", error |-> "str(e)"]

\* ------------------------------------------- main(): which slugs to scrape
\* list(tracker.errors.keys()) with --retry-errors, else the manifest's slugs
SlugsSelected(a, t) ==
    IF a.retry_errors THEN KeyList(t.errors) ELSE all_urls

\* "Clear old errors for retried slugs"
ClearRetried(a, t, slugs) ==
    IF a.retry_errors
    THEN [t EXCEPT !.errors = SelectSeq(@, LAMBDA r : r.slug \notin Elems(slugs))]
    ELSE t

\* the resume filter left out
FilterCompletedOff(a, t, slugs) == slugs

\* "Filter out completed if resuming (not forced)"
FilterCompleted(a, t, slugs) ==
    IF a.resume /\ ~a.force
    THEN SelectSeq(slugs, LAMBDA s : ~is_completed(t, s))
    ELSE slugs

\* slugs_to_scrape[:args.limit or 1]: one page when no --limit is given
ApplyLimitDefaultOne(a, slugs) ==
    LET n == IF a.limit # 0 THEN a.limit ELSE 1
    IN SubSeq(slugs, 1, IF n < Len(slugs) THEN n ELSE Len(slugs))

\* "Apply limit": if args.limit: slugs_to_scrape[:args.limit]
ApplyLimit(a, slugs) ==
    IF a.limit # 0
    THEN SubSeq(slugs, 1, IF a.limit < Len(slugs) THEN a.limit ELSE Len(slugs))
    ELSE slugs

\* --------------------------------------------------------------- history
NoOutcome == [s \in Slugs |-> "untried"]

Dispatched ==
    LET n == Cardinality({i \in 1..Len(futures) : futures[i].state # "unsubmitted"})
    IN SubSeq(slugs_to_scrape, 1, n)

FileSet(f) == IF f.st = "ok" THEN Elems(f.data) ELSE {}

FileKeys(f) == IF f.st = "ok" THEN Keys(f.data) ELSE {}

\* ------------------------------------------------------------------- Init
ArgSets == [resume : BOOLEAN, force : BOOLEAN, retry_errors : BOOLEAN,
            limit : 0..MaxLimit]

NoArgs == [resume |-> FALSE, force |-> FALSE, retry_errors |-> FALSE, limit |-> 0]

InitLitfl ==
    /\ pc = "idle"
    /\ run = 0
    /\ args = NoArgs
    /\ tracker = NewTracker
    /\ slugs_to_scrape = <<>>
    /\ futures = <<>>
    /\ completed = 0
    /\ errors = 0
    /\ saveRet = "final"
    /\ PROGRESS_FILE = Absent
    /\ ERROR_FILE = Absent
    /\ loaded = NewTracker
    /\ outcome = NoOutcome
    /\ how = ""
    /\ prevArgs = NoArgs
    /\ prevCompleted = {}
    /\ prevFile = {}
    /\ lastAttempt = NoOutcome

\* ---------------------------------------------------------------- actions
\* main() returns (or raises): the process is about to exit
Done(h) ==
    /\ pc' = "done"
    /\ how' = h

\* the process has exited: its memory is gone, the two files stay
Gone ==
    /\ pc' = "idle"
    /\ how' = ""
    /\ args' = NoArgs
    /\ tracker' = NewTracker
    /\ slugs_to_scrape' = <<>>
    /\ futures' = <<>>
    /\ completed' = 0
    /\ errors' = 0
    /\ saveRet' = "final"
    /\ loaded' = NewTracker
    /\ outcome' = NoOutcome
    /\ prevArgs' = args
    /\ prevCompleted' = tracker.completed
    /\ prevFile' = FileSet(PROGRESS_FILE)
    /\ lastAttempt' = [s \in Slugs |-> IF outcome[s] # "untried" THEN outcome[s]
                                                               ELSE lastAttempt[s]]
    /\ UNCHANGED <<run, PROGRESS_FILE, ERROR_FILE>>

ProcessExit ==
    /\ pc = "done"
    /\ Gone

\* python litfl_bulk_scrape.py <args>: parse_args, read the discovery file,
\* tracker = ProgressTracker()
StartRun(a) ==
    /\ pc = "idle"
    /\ run < MaxRuns
    /\ run' = run + 1
    /\ args' = a
    /\ tracker' = NewTracker
    /\ slugs_to_scrape' = <<>>
    /\ futures' = <<>>
    /\ completed' = 0
    /\ errors' = 0
    /\ saveRet' = "final"
    /\ loaded' = NewTracker
    /\ outcome' = NoOutcome
    /\ pc' = "load"
    /\ UNCHANGED <<PROGRESS_FILE, ERROR_FILE, how, prevArgs, prevCompleted, prevFile, lastAttempt>>

\* if args.resume or args.retry_errors: tracker.load()
Load ==
    /\ pc = "load"
    /\ IF (args.resume \/ args.retry_errors) /\ LoadRaises
       THEN /\ Done("raised")
            /\ UNCHANGED <<run, args, tracker, slugs_to_scrape, futures, completed,
                           errors, saveRet, PROGRESS_FILE, ERROR_FILE, loaded, outcome,
                           prevArgs, prevCompleted, prevFile, lastAttempt>>
       ELSE /\ tracker' = IF args.resume \/ args.retry_errors
                          THEN LoadErrors(LoadCompleted(tracker))
                          ELSE tracker
            /\ loaded' = tracker'
            /\ pc' = "select"
            /\ UNCHANGED <<run, args, slugs_to_scrape, futures, completed, errors,
                           saveRet, PROGRESS_FILE, ERROR_FILE, outcome, how, prevArgs, prevCompleted, prevFile, lastAttempt>>

\* "Determine which slugs to scrape" up to "if total == 0: return"
SelectSlugs ==
    /\ pc = "select"
    /\ LET sel == SlugsSelected(args, tracker)
           t1 == ClearRetried(args, tracker, sel)
           todo == ApplyLimit(args, FilterCompleted(args, t1, sel))
       IN IF Len(todo) = 0
          THEN /\ tracker' = t1
               /\ Done("nothing")
               /\ UNCHANGED <<run, args, slugs_to_scrape, futures, completed, errors,
                              saveRet, PROGRESS_FILE, ERROR_FILE, loaded, outcome,
                              prevArgs, prevCompleted, prevFile, lastAttempt>>
          ELSE /\ tracker' = t1
               /\ pc' = "submit"
               /\ slugs_to_scrape' = todo
               /\ futures' = [i \in 1..Len(todo) |-> [state |-> "unsubmitted", result |-> NoResult]]
               /\ UNCHANGED <<run, args, completed, errors, saveRet, PROGRESS_FILE,
                              ERROR_FILE, loaded, outcome, how, prevArgs, prevCompleted, prevFile, lastAttempt>>

\* future = executor.submit(scrape_slug, slug, upload_gcs)
Submit ==
    /\ pc = "submit"
    /\ LET i == Len(Dispatched) + 1
       IN /\ futures' = [futures EXCEPT ![i].state = "queued"]
          /\ pc' = IF i = Len(slugs_to_scrape) THEN "collect" ELSE "submit"
    /\ UNCHANGED <<run, args, tracker, slugs_to_scrape, completed, errors, saveRet,
                   PROGRESS_FILE, ERROR_FILE, loaded, outcome, how, prevArgs, prevCompleted, prevFile, lastAttempt>>

Running == {i \in 1..Len(futures) : futures[i].state = "running"}

\* a pool thread takes the oldest queued work item
StartTask(i) ==
    /\ pc \in {"submit", "collect", "unwind"}
    /\ futures[i].state = "queued"
    /\ \A j \in 1..(i - 1) : futures[j].state # "queued"
    /\ Cardinality(Running) < MaxWorkers
    /\ futures' = [futures EXCEPT ![i].state = "running"]
    /\ UNCHANGED <<pc, run, args, tracker, slugs_to_scrape, completed, errors, saveRet,
                   PROGRESS_FILE, ERROR_FILE, loaded, outcome, how, prevArgs, prevCompleted, prevFile, lastAttempt>>

\* scrape_slug returns in the pool thread
FinishTask(i, o) ==
    /\ pc \in {"submit", "collect", "unwind"}
    /\ futures[i].state = "running"
    /\ futures' = [futures EXCEPT ![i] = [state |-> "done",
                                          result |-> scrape_slug(slugs_to_scrape[i], o)]]
    /\ outcome' = [outcome EXCEPT ![slugs_to_scrape[i]] = o]
    /\ UNCHANGED <<pc, run, args, tracker, slugs_to_scrape, completed, errors, saveRet,
                   PROGRESS_FILE, ERROR_FILE, loaded, how, prevArgs, prevCompleted, prevFile, lastAttempt>>

\* one iteration of "for future in as_completed(futures)"
Collect(i) ==
    /\ pc = "collect"
    /\ futures[i].state = "done"
    /\ LET slug == slugs_to_scrape[i]
           result == futures[i].result
           \* future.result() re-raises, and "except Exception as e" records it
           ok == result.status = "success"
           c == IF ok THEN completed + 1 ELSE completed
           e == IF ok THEN errors ELSE errors + 1
       IN /\ completed' = c
          /\ errors' = e
          /\ tracker' = IF ok THEN mark_completed(tracker, slug)
                              ELSE mark_error(tracker, slug, result.error)
          /\ IF (c + e) % save_interval = 0
             THEN pc' = "save" /\ saveRet' = "collect"
             ELSE pc' = "collect" /\ saveRet' = saveRet
    /\ futures' = [futures EXCEPT ![i].state = "collected"]
    /\ UNCHANGED <<run, args, slugs_to_scrape, PROGRESS_FILE, ERROR_FILE, loaded,
                   outcome, how, prevArgs, prevCompleted, prevFile, lastAttempt>>

\* the loop ends, the with-block joins the pool: "Final save"
LoopDone ==
    /\ pc = "collect"
    /\ \A i \in 1..Len(futures) : futures[i].state = "collected"
    /\ pc' = "save"
    /\ saveRet' = "final"
    /\ UNCHANGED <<run, args, tracker, slugs_to_scrape, futures, completed, errors,
                   PROGRESS_FILE, ERROR_FILE, loaded, outcome, how, prevArgs, prevCompleted, prevFile, lastAttempt>>

\* ProgressTracker.save: open(PROGRESS_FILE, "w")
SaveOpenProgress ==
    /\ pc = "save"
    /\ PROGRESS_FILE' = Truncated
    /\ pc' = "save_dump"
    /\ UNCHANGED <<run, args, tracker, slugs_to_scrape, futures, completed, errors,
                   saveRet, ERROR_FILE, loaded, outcome, how, prevArgs, prevCompleted, prevFile, lastAttempt>>

\* json.dump(data, f) with "completed_slugs": sorted(self.completed)
SaveDumpProgress ==
    /\ pc = "save_dump"
    /\ PROGRESS_FILE' = [st |-> "ok", data |-> Sorted(tracker.completed)]
    /\ pc' = "save_errors"
    /\ UNCHANGED <<run, args, tracker, slugs_to_scrape, futures, completed, errors,
                   saveRet, ERROR_FILE, loaded, outcome, how, prevArgs, prevCompleted, prevFile, lastAttempt>>

\* if self.errors: open(ERROR_FILE, "w")
SaveOpenErrors ==
    /\ pc = "save_errors"
    /\ IF tracker.errors # <<>>
       THEN ERROR_FILE' = Truncated /\ pc' = "save_errors_dump"
       ELSE ERROR_FILE' = ERROR_FILE /\ pc' = "saved"
    /\ UNCHANGED <<run, args, tracker, slugs_to_scrape, futures, completed, errors,
                   saveRet, PROGRESS_FILE, loaded, outcome, how, prevArgs, prevCompleted, prevFile, lastAttempt>>

\* json.dump(self.errors, f)
SaveDumpErrors ==
    /\ pc = "save_errors_dump"
    /\ ERROR_FILE' = [st |-> "ok", data |-> tracker.errors]
    /\ pc' = "saved"
    /\ UNCHANGED <<run, args, tracker, slugs_to_scrape, futures, completed, errors,
                   saveRet, PROGRESS_FILE, loaded, outcome, how, prevArgs, prevCompleted, prevFile, lastAttempt>>

\* save() returns: back into the loop, or on to the summary and the exit
SaveReturn ==
    /\ pc = "saved"
    /\ IF saveRet = "collect"
       THEN /\ pc' = "collect"
            /\ UNCHANGED <<run, args, tracker, slugs_to_scrape, futures, completed, errors,
                           saveRet, PROGRESS_FILE, ERROR_FILE, loaded, outcome, how, prevArgs, prevCompleted, prevFile, lastAttempt>>
       ELSE /\ Done("completed")
            /\ UNCHANGED <<run, args, tracker, slugs_to_scrape, futures, completed, errors,
                           saveRet, PROGRESS_FILE, ERROR_FILE, loaded, outcome,
                           prevArgs, prevCompleted, prevFile, lastAttempt>>

\* the process is killed (SIGKILL, power loss) at any point
Crash ==
    /\ pc # "idle"
    /\ Gone

\* Ctrl-C while main() is in the as_completed loop (waiting for a future or in
\* time.sleep): main() has no handler, the KeyboardInterrupt leaves the loop
\* and the with-block's __exit__ runs executor.shutdown(wait=True)
Interrupt ==
    /\ pc = "collect"
    /\ pc' = "unwind"
    /\ UNCHANGED <<run, args, tracker, slugs_to_scrape, futures, completed, errors, saveRet,
                   PROGRESS_FILE, ERROR_FILE, loaded, outcome, how, prevArgs, prevCompleted, prevFile,
                   lastAttempt>>

\* shutdown(wait=True) returns when the pool has run every work item it was
\* given; the exception then leaves main(), and "Final save" is not reached
Unwound ==
    /\ pc = "unwind"
    /\ \A i \in 1..Len(futures) : futures[i].state \notin {"queued", "running"}
    /\ Done("interrupted")
    /\ UNCHANGED <<run, args, tracker, slugs_to_scrape, futures, completed, errors, saveRet,
                   PROGRESS_FILE, ERROR_FILE, loaded, outcome, prevArgs, prevCompleted, prevFile,
                   lastAttempt>>

\* main() up to "if not DISCOVERY_PATH.exists(): logger.error(...); return":
\* the discovery file is missing when the process starts
NoDiscovery(a) ==
    /\ pc = "idle"
    /\ run < MaxRuns
    /\ run' = run + 1
    /\ args' = a
    /\ Done("no discovery")
    /\ UNCHANGED <<tracker, slugs_to_scrape, futures, completed, errors, saveRet,
                   PROGRESS_FILE, ERROR_FILE, loaded, outcome, prevArgs, prevCompleted, prevFile,
                   lastAttempt>>

\* the exit status of "if __name__ == '__main__': main()": 0 when main()
\* returns, whatever it returns after; 1 when an exception leaves it
ExitCode(h) == IF h \in {"raised", "interrupted"} THEN 1 ELSE 0

NextLitfl ==
    \/ (\E a \in ArgSets : StartRun(a)) /\ UNCHANGED <<aliemVars, moreVars>>
    \/ Load /\ UNCHANGED <<aliemVars, moreVars>>
    \/ SelectSlugs /\ UNCHANGED <<aliemVars, moreVars>>
    \/ Submit /\ UNCHANGED <<aliemVars, moreVars>>
    \/ (\E i \in 1..Len(futures) : StartTask(i)) /\ UNCHANGED <<aliemVars, moreVars>>
    \/ (\E i \in 1..Len(futures), o \in Outcomes : FinishTask(i, o)) /\ UNCHANGED <<aliemVars, moreVars>>
    \/ (\E i \in 1..Len(futures) : Collect(i)) /\ UNCHANGED <<aliemVars, moreVars>>
    \/ LoopDone /\ UNCHANGED <<aliemVars, moreVars>>
    \/ SaveOpenProgress /\ UNCHANGED <<aliemVars, moreVars>>
    \/ SaveDumpProgress /\ UNCHANGED <<aliemVars, moreVars>>
    \/ SaveOpenErrors /\ UNCHANGED <<aliemVars, moreVars>>
    \/ SaveDumpErrors /\ UNCHANGED <<aliemVars, moreVars>>
    \/ SaveReturn /\ UNCHANGED <<aliemVars, moreVars>>
    \/ ProcessExit /\ UNCHANGED <<aliemVars, moreVars>>

KillLitfl == Crash /\ UNCHANGED <<aliemVars, moreVars>>

StartupLitfl == (\E a \in ArgSets : NoDiscovery(a)) /\ UNCHANGED <<aliemVars, moreVars>>

InterruptLitfl ==
    \/ Interrupt /\ UNCHANGED <<aliemVars, moreVars>>
    \/ Unwound /\ UNCHANGED <<aliemVars, moreVars>>

\* =================================================================== ALiEM
a_save_interval == 20

Threads == 1..MaxWorkers

IdleThread == [pc |-> "idle", slug |-> 0, op |-> "", tmp |-> 0]

A_NewTracker == [total |-> NumSlugs, completed |-> 0, succeeded |-> 0, failed |-> 0,
                 skipped |-> 0, errors |-> <<>>, results |-> <<>>]

NoSnap == [completed |-> 0, succeeded |-> 0, failed |-> 0, skipped |-> 0]

AliemOff ==
    /\ a_pc = "off"
    /\ a_resume = FALSE
    /\ a_processed = {}
    /\ a_futures = [s \in Slugs |-> "unsubmitted"]
    /\ a_w = [w \in Threads |-> IdleThread]
    /\ a_tracker = A_NewTracker
    /\ a_lock = 0
    /\ a_snap = NoSnap
    /\ a_saveRet = "final"
    /\ a_LOG_FILE = Absent
    /\ a_ERROR_FILE = Absent
    /\ a_outcome = NoOutcome
    /\ a_extracted = {}

LitflOff ==
    /\ pc = "off"
    /\ run = 0
    /\ args = NoArgs
    /\ tracker = NewTracker
    /\ slugs_to_scrape = <<>>
    /\ futures = <<>>
    /\ completed = 0
    /\ errors = 0
    /\ saveRet = "final"
    /\ PROGRESS_FILE = Absent
    /\ ERROR_FILE = Absent
    /\ loaded = NewTracker
    /\ outcome = NoOutcome
    /\ how = ""
    /\ prevArgs = NoArgs
    /\ prevCompleted = {}
    /\ prevFile = {}
    /\ lastAttempt = NoOutcome

\* main() up to tracker = ProgressTracker(total): the slugs file holds the
\* NumSlugs slugs; any of them may have been scraped by an earlier run
InitAliem ==
    /\ LitflOff
    /\ MoreOff
    /\ a_pc = "submit"
    /\ a_resume \in BOOLEAN
    /\ a_processed \in SUBSET Slugs
    /\ a_futures = [s \in Slugs |-> "unsubmitted"]
    /\ a_w = [w \in Threads |-> IdleThread]
    /\ a_tracker = A_NewTracker
    /\ a_lock = 0
    /\ a_snap = NoSnap
    /\ a_saveRet = "final"
    /\ a_LOG_FILE = Absent
    /\ a_ERROR_FILE = Absent
    /\ a_outcome = NoOutcome
    /\ a_extracted = {}

\* pool.submit(scrape_slug, slug, tracker, upload_gcs, args.resume), in the
\* order of the slugs file
A_Submit ==
    /\ a_pc = "submit"
    /\ LET s == CHOOSE x \in Slugs : /\ a_futures[x] = "unsubmitted"
                                     /\ \A y \in Slugs : a_futures[y] = "unsubmitted" => x <= y
       IN /\ a_futures' = [a_futures EXCEPT ![s] = "queued"]
          /\ a_pc' = IF \A y \in Slugs \ {s} : a_futures[y] # "unsubmitted"
                     THEN "collect" ELSE "submit"
    /\ UNCHANGED <<a_resume, a_processed, a_w, a_tracker, a_lock, a_snap, a_saveRet,
                   a_LOG_FILE, a_ERROR_FILE, a_outcome, a_extracted>>

\* a pool thread takes the oldest queued work item and enters scrape_slug
\* (the idle threads are interchangeable: the lowest one takes it)
A_TakeTask(w, s) ==
    /\ a_pc # "off"
    /\ a_w[w].pc = "idle"
    /\ \A v \in Threads : a_w[v].pc = "idle" => w <= v
    /\ a_futures[s] = "queued"
    /\ \A y \in Slugs : a_futures[y] = "queued" => s <= y
    /\ a_futures' = [a_futures EXCEPT ![s] = "running"]
    /\ a_w' = [a_w EXCEPT ![w] = [pc |-> "check", slug |-> s, op |-> "", tmp |-> 0]]
    /\ UNCHANGED <<a_pc, a_resume, a_processed, a_tracker, a_lock, a_snap, a_saveRet,
                   a_LOG_FILE, a_ERROR_FILE, a_outcome, a_extracted>>

\* "Resume: skip if already scraped"
AlreadyScraped(resume, processed, slug) == resume /\ slug \in processed

A_CheckResume(w) ==
    /\ a_w[w].pc = "check"
    /\ IF AlreadyScraped(a_resume, a_processed, a_w[w].slug)
       THEN /\ a_w' = [a_w EXCEPT ![w].pc = "lock", ![w].op = "skip"]
            /\ a_outcome' = [a_outcome EXCEPT ![a_w[w].slug] = "skip"]
       ELSE /\ a_w' = [a_w EXCEPT ![w].pc = "extract"]
            /\ a_outcome' = a_outcome
    /\ UNCHANGED <<a_pc, a_resume, a_processed, a_futures, a_tracker, a_lock, a_snap,
                   a_saveRet, a_LOG_FILE, a_ERROR_FILE, a_extracted>>

\* result = extract_page(slug, upload_gcs=upload_gcs), which writes
\* processed/<slug>.json before it returns a result
A_Extract(w, o) ==
    /\ a_w[w].pc = "extract"
    /\ a_extracted' = a_extracted \cup {a_w[w].slug}
    /\ a_processed' = IF o = "success" THEN a_processed \cup {a_w[w].slug} ELSE a_processed
    /\ a_w' = [a_w EXCEPT ![w].pc = "lock",
                          ![w].op = IF o = "success" THEN "success" ELSE "failure"]
    /\ a_outcome' = [a_outcome EXCEPT ![a_w[w].slug] =
                                          IF o = "success" THEN "success" ELSE "failure"]
    /\ UNCHANGED <<a_pc, a_resume, a_futures, a_tracker, a_lock, a_snap, a_saveRet,
                   a_LOG_FILE, a_ERROR_FILE>>

\* record_* without "with self.lock"
LockIgnored == TRUE

\* "with self.lock:" may be entered
LockFree == a_lock = 0

\* record_success / record_failure / record_skip: with self.lock
A_Acquire(w) ==
    /\ a_w[w].pc = "lock"
    /\ LockFree
    /\ a_lock' = w
    /\ a_w' = [a_w EXCEPT ![w].pc = "c_load"]
    /\ UNCHANGED <<a_pc, a_resume, a_processed, a_futures, a_tracker, a_snap, a_saveRet,
                   a_LOG_FILE, a_ERROR_FILE, a_outcome, a_extracted>>

\* the counter that goes with the operation
Counter(op) ==
    CASE op = "success" -> "succeeded"
      [] op = "failure" -> "failed"
      [] op = "skip"    -> "skipped"

\* self.completed += 1: read ...
A_LoadCompleted(w) ==
    /\ a_w[w].pc = "c_load"
    /\ a_w' = [a_w EXCEPT ![w].pc = "c_store", ![w].tmp = a_tracker.completed]
    /\ UNCHANGED <<a_pc, a_resume, a_processed, a_futures, a_tracker, a_lock, a_snap,
                   a_saveRet, a_LOG_FILE, a_ERROR_FILE, a_outcome, a_extracted>>

\* ... and write
A_StoreCompleted(w) ==
    /\ a_w[w].pc = "c_store"
    /\ a_tracker' = [a_tracker EXCEPT !.completed = a_w[w].tmp + 1]
    /\ a_w' = [a_w EXCEPT ![w].pc = "k_load", ![w].tmp = 0]
    /\ UNCHANGED <<a_pc, a_resume, a_processed, a_futures, a_lock, a_snap, a_saveRet,
                   a_LOG_FILE, a_ERROR_FILE, a_outcome, a_extracted>>

\* self.succeeded += 1 (or failed, or skipped): read ...
A_LoadCounter(w) ==
    /\ a_w[w].pc = "k_load"
    /\ a_w' = [a_w EXCEPT ![w].pc = "k_store", ![w].tmp = a_tracker[Counter(a_w[w].op)]]
    /\ UNCHANGED <<a_pc, a_resume, a_processed, a_futures, a_tracker, a_lock, a_snap,
                   a_saveRet, a_LOG_FILE, a_ERROR_FILE, a_outcome, a_extracted>>

\* ... and write
A_StoreCounter(w) ==
    /\ a_w[w].pc = "k_store"
    /\ a_tracker' = [a_tracker EXCEPT ![Counter(a_w[w].op)] = a_w[w].tmp + 1]
    /\ a_w' = [a_w EXCEPT ![w].pc = "append", ![w].tmp = 0]
    /\ UNCHANGED <<a_pc, a_resume, a_processed, a_futures, a_lock, a_snap, a_saveRet,
                   a_LOG_FILE, a_ERROR_FILE, a_outcome, a_extracted>>

\* self.results.append(...) for a success or a skip, self.errors.append(...)
\* for a failure
A_Append(w) ==
    /\ a_w[w].pc = "append"
    /\ a_tracker' =
         IF a_w[w].op = "failure"
         THEN [a_tracker EXCEPT !.errors = Append(@, [slug |-> a_w[w].slug])]
         ELSE [a_tracker EXCEPT !.results =
                  Append(@, [slug |-> a_w[w].slug,
                             status |-> IF a_w[w].op = "skip" THEN "skipped" ELSE "success"])]
    /\ a_w' = [a_w EXCEPT ![w].pc = "unlock"]
    /\ UNCHANGED <<a_pc, a_resume, a_processed, a_futures, a_lock, a_snap, a_saveRet,
                   a_LOG_FILE, a_ERROR_FILE, a_outcome, a_extracted>>

\* the with-block ends, scrape_slug returns, the future is done
A_Release(w) ==
    /\ a_w[w].pc = "unlock"
    /\ a_lock' = IF a_lock = w THEN 0 ELSE a_lock
    /\ a_futures' = [a_futures EXCEPT ![a_w[w].slug] = "done"]
    /\ a_w' = [a_w EXCEPT ![w] = IdleThread]
    /\ UNCHANGED <<a_pc, a_resume, a_processed, a_tracker, a_snap, a_saveRet,
                   a_LOG_FILE, a_ERROR_FILE, a_outcome, a_extracted>>

\* one iteration of "for future in as_completed(futures)": future.result(),
\* then "if tracker.completed % 20 == 0: tracker.save()"
A_Collect(s) ==
    /\ a_pc = "collect"
    /\ a_futures[s] = "done"
    /\ a_futures' = [a_futures EXCEPT ![s] = "collected"]
    /\ IF a_tracker.completed % a_save_interval = 0
       THEN a_pc' = "sv_open" /\ a_saveRet' = "collect"
       ELSE a_pc' = "collect" /\ a_saveRet' = a_saveRet
    /\ UNCHANGED <<a_resume, a_processed, a_w, a_tracker, a_lock, a_snap,
                   a_LOG_FILE, a_ERROR_FILE, a_outcome, a_extracted>>

\* the loop ends and the with-block has joined the pool: tracker.save()
A_LoopDone ==
    /\ a_pc = "collect"
    /\ \A s \in Slugs : a_futures[s] = "collected"
    /\ a_pc' = "sv_open"
    /\ a_saveRet' = "final"
    /\ UNCHANGED <<a_resume, a_processed, a_futures, a_w, a_tracker, a_lock, a_snap,
                   a_LOG_FILE, a_ERROR_FILE, a_outcome, a_extracted>>

\* except KeyboardInterrupt: "Interrupted! Saving progress...": tracker.save()
A_Interrupt ==
    /\ a_pc = "collect"
    /\ \E s \in Slugs : a_futures[s] # "collected"
    /\ a_pc' = "sv_open"
    /\ a_saveRet' = "interrupt"
    /\ UNCHANGED <<a_resume, a_processed, a_futures, a_w, a_tracker, a_lock, a_snap,
                   a_LOG_FILE, a_ERROR_FILE, a_outcome, a_extracted>>

\* ProgressTracker.save: open(LOG_FILE, "w")
A_SaveOpen ==
    /\ a_pc = "sv_open"
    /\ a_LOG_FILE' = Truncated
    /\ a_snap' = NoSnap
    /\ a_pc' = "sv_completed"
    /\ UNCHANGED <<a_resume, a_processed, a_futures, a_w, a_tracker, a_lock, a_saveRet,
                   a_ERROR_FILE, a_outcome, a_extracted>>

\* the dict literal reads the counters one after the other, without the lock
A_SaveRead(field, next) ==
    /\ a_pc = "sv_" \o field
    /\ a_snap' = [a_snap EXCEPT ![field] = a_tracker[field]]
    /\ a_pc' = next
    /\ UNCHANGED <<a_resume, a_processed, a_futures, a_w, a_tracker, a_lock, a_saveRet,
                   a_LOG_FILE, a_ERROR_FILE, a_outcome, a_extracted>>

\* json.dump(..., f): self.results is read while it is written out
A_SaveDump ==
    /\ a_pc = "sv_dump"
    /\ a_LOG_FILE' = [st |-> "ok",
                      data |-> [total |-> a_tracker.total,
                                completed |-> a_snap.completed,
                                succeeded |-> a_snap.succeeded,
                                failed |-> a_snap.failed,
                                skipped |-> a_snap.skipped,
                                results |-> a_tracker.results]]
    /\ a_pc' = "sv_errors"
    /\ UNCHANGED <<a_resume, a_processed, a_futures, a_w, a_tracker, a_lock, a_snap,
                   a_saveRet, a_ERROR_FILE, a_outcome, a_extracted>>

\* if self.errors: open(ERROR_FILE, "w")
A_SaveOpenErrors ==
    /\ a_pc = "sv_errors"
    /\ IF a_tracker.errors # <<>>
       THEN a_ERROR_FILE' = Truncated /\ a_pc' = "sv_errors_dump"
       ELSE a_ERROR_FILE' = a_ERROR_FILE /\ a_pc' = "sv_return"
    /\ UNCHANGED <<a_resume, a_processed, a_futures, a_w, a_tracker, a_lock, a_snap,
                   a_saveRet, a_LOG_FILE, a_outcome, a_extracted>>

\* json.dump(self.errors, f)
A_SaveDumpErrors ==
    /\ a_pc = "sv_errors_dump"
    /\ a_ERROR_FILE' = [st |-> "ok", data |-> a_tracker.errors]
    /\ a_pc' = "sv_return"
    /\ UNCHANGED <<a_resume, a_processed, a_futures, a_w, a_tracker, a_lock, a_snap,
                   a_saveRet, a_LOG_FILE, a_outcome, a_extracted>>

\* save() returns: into the loop, to the end of main(), or, after an interrupt,
\* to pool.shutdown(wait=False, cancel_futures=True) and the return
A_SaveReturn ==
    /\ a_pc = "sv_return"
    /\ CASE a_saveRet = "collect" ->
              a_pc' = "collect" /\ a_futures' = a_futures
         [] a_saveRet = "final" ->
              a_pc' = "done" /\ a_futures' = a_futures
         [] a_saveRet = "interrupt" ->
              /\ a_pc' = "join"
              /\ a_futures' = [s \in Slugs |-> IF a_futures[s] = "queued" THEN "cancelled"
                                                                        ELSE a_futures[s]]
    /\ UNCHANGED <<a_resume, a_processed, a_w, a_tracker, a_lock, a_snap, a_saveRet,
                   a_LOG_FILE, a_ERROR_FILE, a_outcome, a_extracted>>

\* the return leaves the with-block, which waits for the threads still running
A_Join ==
    /\ a_pc = "join"
    /\ \A w \in Threads : a_w[w].pc = "idle"
    /\ a_pc' = "interrupted"
    /\ UNCHANGED <<a_resume, a_processed, a_futures, a_w, a_tracker, a_lock, a_snap,
                   a_saveRet, a_LOG_FILE, a_ERROR_FILE, a_outcome, a_extracted>>

NextAliem ==
    \/ A_Submit /\ UNCHANGED <<litflVars, moreVars>>
    \/ (\E w \in Threads, s \in Slugs : A_TakeTask(w, s)) /\ UNCHANGED <<litflVars, moreVars>>
    \/ (\E w \in Threads : A_CheckResume(w)) /\ UNCHANGED <<litflVars, moreVars>>
    \/ (\E w \in Threads, o \in Outcomes : A_Extract(w, o)) /\ UNCHANGED <<litflVars, moreVars>>
    \/ (\E w \in Threads : A_Acquire(w)) /\ UNCHANGED <<litflVars, moreVars>>
    \/ (\E w \in Threads : A_LoadCompleted(w)) /\ UNCHANGED <<litflVars, moreVars>>
    \/ (\E w \in Threads : A_StoreCompleted(w)) /\ UNCHANGED <<litflVars, moreVars>>
    \/ (\E w \in Threads : A_LoadCounter(w)) /\ UNCHANGED <<litflVars, moreVars>>
    \/ (\E w \in Threads : A_StoreCounter(w)) /\ UNCHANGED <<litflVars, moreVars>>
    \/ (\E w \in Threads : A_Append(w)) /\ UNCHANGED <<litflVars, moreVars>>
    \/ (\E w \in Threads : A_Release(w)) /\ UNCHANGED <<litflVars, moreVars>>
    \/ (\E s \in Slugs : A_Collect(s)) /\ UNCHANGED <<litflVars, moreVars>>
    \/ A_LoopDone /\ UNCHANGED <<litflVars, moreVars>>
    \/ A_SaveOpen /\ UNCHANGED <<litflVars, moreVars>>
    \/ A_SaveRead("completed", "sv_succeeded") /\ UNCHANGED <<litflVars, moreVars>>
    \/ A_SaveRead("succeeded", "sv_failed") /\ UNCHANGED <<litflVars, moreVars>>
    \/ A_SaveRead("failed", "sv_skipped") /\ UNCHANGED <<litflVars, moreVars>>
    \/ A_SaveRead("skipped", "sv_dump") /\ UNCHANGED <<litflVars, moreVars>>
    \/ A_SaveDump /\ UNCHANGED <<litflVars, moreVars>>
    \/ A_SaveOpenErrors /\ UNCHANGED <<litflVars, moreVars>>
    \/ A_SaveDumpErrors /\ UNCHANGED <<litflVars, moreVars>>
    \/ A_SaveReturn /\ UNCHANGED <<litflVars, moreVars>>

\* Ctrl-C while main() waits in as_completed
InterruptAliem ==
    \/ A_Interrupt /\ UNCHANGED <<litflVars, moreVars>>
    \/ A_Join /\ UNCHANGED <<litflVars, moreVars>>

\* ============================================================= checkpoints
\* The as_completed loops of LITFL and ALiEM with the entries counted only:
\* which entry is which, and what its outcome was, plays no part in
\* "if ... % save_interval == 0: tracker.save()".
InitCheckpoint ==
    /\ LitflOff
    /\ AliemOff
    /\ PacingOff
    /\ DiscoveryOff
    /\ IndexerOff
    /\ PollOff
    /\ BatchingOff
    /\ ExtractionOff
    /\ FetchOff
    /\ AccountingOff
    /\ ReindexOff
    /\ ck_pc = "loop"
    /\ ck_scraper \in {"litfl", "aliem"}
    /\ ck_started = 0
    /\ ck_recorded = 0
    /\ ck_collected = 0
    /\ ck_saves = <<>>
    /\ ck_final = 0

\* save_interval of the scraper that runs
Interval == IF ck_scraper = "litfl" THEN save_interval ELSE a_save_interval

\* a pool thread takes the next work item
CK_Start ==
    /\ ck_pc = "loop"
    /\ ck_started < NumPages
    /\ ck_started - ck_recorded < MaxWorkers
    /\ ck_started' = ck_started + 1
    /\ UNCHANGED <<ck_pc, ck_scraper, ck_recorded, ck_collected, ck_saves, ck_final>>

\* scrape_slug returns; in ALiEM it has called tracker.record_*, which added
\* one to tracker.completed under the lock
CK_Finish ==
    /\ ck_pc = "loop"
    /\ ck_recorded < ck_started
    /\ ck_recorded' = ck_recorded + 1
    /\ UNCHANGED <<ck_pc, ck_scraper, ck_started, ck_collected, ck_saves, ck_final>>

\* the count the loop tests after a future: LITFL adds up its own locals
\* completed + errors, ALiEM reads tracker.completed, which the workers write
Seen(collected) == IF ck_scraper = "litfl" THEN collected ELSE ck_recorded

\* one iteration of "for future in as_completed(futures)"
CK_Collect ==
    /\ ck_pc = "loop"
    /\ ck_collected < ck_recorded
    /\ ck_collected' = ck_collected + 1
    /\ ck_saves' = IF Seen(ck_collected + 1) % Interval = 0
                   THEN Append(ck_saves, Seen(ck_collected + 1))
                   ELSE ck_saves
    /\ UNCHANGED <<ck_pc, ck_scraper, ck_started, ck_recorded, ck_final>>

\* the loop has handled every future: tracker.save() after the with-block
CK_FinalSave ==
    /\ ck_pc = "loop"
    /\ ck_collected = NumPages
    /\ ck_final' = ck_final + 1
    /\ ck_pc' = "done"
    /\ UNCHANGED <<ck_scraper, ck_started, ck_recorded, ck_collected, ck_saves>>

NextCheckpoint ==
    \/ CK_Start /\ UNCHANGED <<litflVars, aliemVars, paVars, diVars, ixVars, poVars, baVars, exVars, feVars, acVars, reVars>>
    \/ CK_Finish /\ UNCHANGED <<litflVars, aliemVars, paVars, diVars, ixVars, poVars, baVars, exVars, feVars, acVars, reVars>>
    \/ CK_Collect /\ UNCHANGED <<litflVars, aliemVars, paVars, diVars, ixVars, poVars, baVars, exVars, feVars, acVars, reVars>>
    \/ CK_FinalSave /\ UNCHANGED <<litflVars, aliemVars, paVars, diVars, ixVars, poVars, baVars, exVars, feVars, acVars, reVars>>

\* ================================================================== pacing
\* The submission loops of PMC's bulk_scrape and LITFL's main against a clock.
\* A statement takes no time of its own; time passes in PA_Tick, at any
\* point, and time.sleep(d) returns once d ticks have passed.
InitPacing ==
    /\ LitflOff
    /\ AliemOff
    /\ CheckpointOff
    /\ DiscoveryOff
    /\ IndexerOff
    /\ PollOff
    /\ BatchingOff
    /\ ExtractionOff
    /\ FetchOff
    /\ AccountingOff
    /\ ReindexOff
    /\ pa_pc = "submit"
    /\ pa_scraper \in {"pmc", "litfl"}
    /\ pa_now = 0
    /\ pa_wake = 0
    /\ pa_started = 0
    /\ pa_finished = 0
    /\ pa_collected = 0
    /\ pa_times = <<>>

PA_Tick ==
    /\ pa_pc \notin {"off", "done"}
    /\ pa_now < MaxTime
    /\ pa_now' = pa_now + 1
    /\ UNCHANGED <<pa_pc, pa_scraper, pa_wake, pa_started, pa_finished, pa_collected,
                   pa_times>>

\* executor.submit(...); PMC then calls time.sleep(RATE_LIMIT_DELAY), LITFL
\* goes straight on to the next slug
PA_Submit ==
    /\ pa_pc = "submit"
    /\ pa_times' = Append(pa_times, pa_now)
    /\ IF pa_scraper = "pmc"
       THEN pa_pc' = "sleep" /\ pa_wake' = pa_now + DelayTicks
       ELSE /\ pa_pc' = IF Len(pa_times) + 1 = NumSlugs THEN "loop" ELSE "submit"
            /\ pa_wake' = pa_wake
    /\ UNCHANGED <<pa_scraper, pa_now, pa_started, pa_finished, pa_collected>>

\* time.sleep returns
PA_Wake ==
    /\ pa_pc = "sleep"
    /\ pa_now >= pa_wake
    /\ pa_pc' = IF pa_scraper = "pmc" /\ Len(pa_times) < NumSlugs THEN "submit" ELSE "loop"
    /\ UNCHANGED <<pa_scraper, pa_now, pa_wake, pa_started, pa_finished, pa_collected,
                   pa_times>>

\* a pool thread takes the next submitted work item
PA_Start ==
    /\ pa_pc \notin {"off", "done"}
    /\ pa_started < Len(pa_times)
    /\ pa_started - pa_finished < MaxWorkers
    /\ pa_started' = pa_started + 1
    /\ UNCHANGED <<pa_pc, pa_scraper, pa_now, pa_wake, pa_finished, pa_collected, pa_times>>

\* the work item's function returns
PA_Finish ==
    /\ pa_pc \notin {"off", "done"}
    /\ pa_finished < pa_started
    /\ pa_finished' = pa_finished + 1
    /\ UNCHANGED <<pa_pc, pa_scraper, pa_now, pa_wake, pa_started, pa_collected, pa_times>>

\* one iteration of "for future in as_completed(futures)"; LITFL ends it with
\* time.sleep(args.delay)
PA_Collect ==
    /\ pa_pc = "loop"
    /\ pa_collected < pa_finished
    /\ pa_collected' = pa_collected + 1
    /\ IF pa_scraper = "litfl"
       THEN pa_pc' = "sleep" /\ pa_wake' = pa_now + DelayTicks
       ELSE pa_pc' = "loop" /\ pa_wake' = pa_wake
    /\ UNCHANGED <<pa_scraper, pa_now, pa_started, pa_finished, pa_times>>

PA_LoopDone ==
    /\ pa_pc = "loop"
    /\ pa_collected = NumSlugs
    /\ pa_pc' = "done"
    /\ UNCHANGED <<pa_scraper, pa_now, pa_wake, pa_started, pa_finished, pa_collected,
                   pa_times>>

NextPacing ==
    \/ PA_Tick /\ UNCHANGED <<litflVars, aliemVars, ckVars, diVars, ixVars, poVars, baVars, exVars, feVars, acVars, reVars>>
    \/ PA_Submit /\ UNCHANGED <<litflVars, aliemVars, ckVars, diVars, ixVars, poVars, baVars, exVars, feVars, acVars, reVars>>
    \/ PA_Wake /\ UNCHANGED <<litflVars, aliemVars, ckVars, diVars, ixVars, poVars, baVars, exVars, feVars, acVars, reVars>>
    \/ PA_Start /\ UNCHANGED <<litflVars, aliemVars, ckVars, diVars, ixVars, poVars, baVars, exVars, feVars, acVars, reVars>>
    \/ PA_Finish /\ UNCHANGED <<litflVars, aliemVars, ckVars, diVars, ixVars, poVars, baVars, exVars, feVars, acVars, reVars>>
    \/ PA_Collect /\ UNCHANGED <<litflVars, aliemVars, ckVars, diVars, ixVars, poVars, baVars, exVars, feVars, acVars, reVars>>
    \/ PA_LoopDone /\ UNCHANGED <<litflVars, aliemVars, ckVars, diVars, ixVars, poVars, baVars, exVars, feVars, acVars, reVars>>

\* =============================================================== discovery
\* LITFLDiscovery.discover_from_sitemaps with main's save_discovery, and PMC's
\* run_discovery.  A source is a nested sitemap (LITFL) or a journal (PMC); a
\* key is a slug or a PMCID.
SeqsUpTo(S, n) == UNION {[1..k -> S] : k \in 0..n}

\* a sitemap / an esearch result lists a key once
Listings == {q \in SeqsUpTo(Slugs, MaxEntries) : \A k, l \in 1..Len(q) : q[k] = q[l] => k = l}

InitDiscovery ==
    /\ LitflOff
    /\ AliemOff
    /\ CheckpointOff
    /\ PacingOff
    /\ IndexerOff
    /\ PollOff
    /\ BatchingOff
    /\ ExtractionOff
    /\ FetchOff
    /\ AccountingOff
    /\ ReindexOff
    /\ di_pc = "fetch"
    /\ di_scraper \in {"litfl", "pmc"}
    /\ di_sources \in [1..NumSources -> Listings]
    /\ di_i = 1
    /\ di_all = <<>>
    /\ di_fetched = {}
    /\ di_manifest = NoManifest

\* the entries one source yields: {"slug", "source"} / {"pmcid", "journal"}
EntriesOf(i) == [k \in 1..Len(di_sources[i]) |-> [key |-> di_sources[i][k], source |-> i]]

\* "Deduplicate by PMCID (keep first occurrence)"
RECURSIVE Deduplicate(_, _)
Deduplicate(all_articles, seen) ==
    IF all_articles = <<>> THEN <<>>
    ELSE IF Head(all_articles).key \notin seen
         THEN <<Head(all_articles)>>
              \o Deduplicate(Tail(all_articles), seen \cup {Head(all_articles).key})
         ELSE Deduplicate(Tail(all_articles), seen)

\* one iteration of the loop over the sources.  LITFL's _parse_sitemap catches
\* a failed fetch and returns []; PMC's fetch_ids_for_journal has no handler
\* and neither has the loop in run_discovery
DI_Fetch(ok) ==
    /\ di_pc = "fetch"
    /\ IF ok
       THEN /\ di_all' = di_all \o EntriesOf(di_i)
            /\ di_fetched' = di_fetched \cup {di_i}
            /\ di_i' = di_i + 1
            /\ di_pc' = IF di_i = NumSources THEN "collected" ELSE "fetch"
       ELSE IF di_scraper = "litfl"
            THEN /\ di_i' = di_i + 1
                 /\ di_pc' = IF di_i = NumSources THEN "collected" ELSE "fetch"
                 /\ UNCHANGED <<di_all, di_fetched>>
            ELSE /\ di_pc' = "raised"
                 /\ UNCHANGED <<di_all, di_fetched, di_i>>
    /\ UNCHANGED <<di_scraper, di_sources, di_manifest>>

\* PMC: deduplicate, then json.dump(result) to DISCOVERY_PATH.  LITFL:
\* "if urls:" save_discovery(urls) writes the list as it was collected
DI_Save ==
    /\ di_pc = "collected"
    /\ di_manifest' =
         IF di_scraper = "pmc"
         THEN [st |-> "ok", data |-> Deduplicate(di_all, {})]
         ELSE IF di_all # <<>> THEN [st |-> "ok", data |-> di_all] ELSE di_manifest
    /\ di_pc' = "done"
    /\ UNCHANGED <<di_scraper, di_sources, di_i, di_all, di_fetched>>

NextDiscovery ==
    \/ (\E ok \in BOOLEAN : DI_Fetch(ok)) /\ UNCHANGED <<litflVars, aliemVars, ckVars, paVars, ixVars, poVars, baVars, exVars, feVars, acVars, reVars>>
    \/ DI_Save /\ UNCHANGED <<litflVars, aliemVars, ckVars, paVars, ixVars, poVars, baVars, exVars, feVars, acVars, reVars>>


\* ========================================================= corpus indexing
\* The import loops: LITFL's index_all with _index_via_import, batch_import
\* of ALiEM and of REBEL EM, and the batch loop of the API's
\* reindex_rag_corpus.  The remote corpus is the environment: it starts an
\* import operation (200) only while none is running and answers 400
\* FAILED_PRECONDITION ("busy") only while one is; at any time it may answer
\* 429 or another error ("500"), or the request may fail without an answer
\* ("raise").  An operation ends when the corpus is done with it.
Importers == {"litfl", "aliem", "rebelem", "api"}

Responses == {"200", "429", "busy", "500", "raise"}

Batches == 1..NumBatches

RECURSIVE Pow2(_)
Pow2(n) == IF n = 0 THEN 1 ELSE 2 * Pow2(n - 1)

Min(a, b) == IF a < b THEN a ELSE b

InitIndexer ==
    /\ LitflOff
    /\ AliemOff
    /\ CheckpointOff
    /\ PacingOff
    /\ DiscoveryOff
    /\ PollOff
    /\ BatchingOff
    /\ ExtractionOff
    /\ FetchOff
    /\ AccountingOff
    /\ ReindexOff
    /\ ix_pc = "post"
    /\ ix_importer \in Importers
    /\ ix_batch = 1
    /\ ix_attempt = 0
    /\ ix_resps = [b \in Batches |-> <<>>]
    /\ ix_waits = [b \in Batches |-> <<>>]
    /\ ix_result = [b \in Batches |-> "pending"]
    /\ ix_ops = {}
    /\ ix_overlap = FALSE

\* range(...) of the retry loop; the API posts each batch once
MaxAttempts(importer) ==
    CASE importer = "litfl" -> max_retries
      [] importer = "aliem" -> a_max_attempts
      [] importer = "rebelem" -> r_max_attempts
      [] OTHER -> 1

\* the branches of the retry loop that sleep and go round again
Retried(importer, r) ==
    CASE importer = "litfl" -> r \in {"429", "busy"}
      [] importer \in {"aliem", "rebelem"} -> r = "busy"
      [] OTHER -> FALSE

\* wait_time / wait of the branch taken
WaitTime(importer, r, attempt) ==
    CASE importer = "litfl" -> IF r = "429" THEN Pow2(attempt) * 2 ELSE Pow2(attempt) * 3
      [] importer = "aliem" -> Min(Pow2(attempt) * 3, a_max_wait)
      [] OTHER -> Min(Pow2(attempt) * 3, r_max_wait)

\* index_all catches what index_file raises; batch_import and the API's loop
\* have no handler around the POST
CatchesRaise(importer) == importer = "litfl"

\* what is on record about a batch whose retry loop ran out: LITFL logs it
\* and counts it failed, batch_import falls out of the loop without a word
Exhausted(importer) == IF importer = "litfl" THEN "failed" ELSE "unrecorded"

\* one POST of the current batch and everything the loop does with the
\* answer, up to the next POST (the sleeps included)
IX_Post(r) ==
    LET b == ix_batch
        retry == Retried(ix_importer, r) /\ r # "raise"
        again == retry /\ ix_attempt + 1 < MaxAttempts(ix_importer)
        abort == r = "raise" /\ ~CatchesRaise(ix_importer)
        recorded == CASE r = "200" -> "started"
                     [] retry -> Exhausted(ix_importer)
                     [] OTHER -> "failed"
    IN  /\ ix_pc = "post"
        /\ r = "200" => ix_ops = {}
        /\ r = "busy" => ix_ops # {}
        /\ ix_resps' = [ix_resps EXCEPT ![b] = Append(@, r)]
        /\ ix_overlap' = (ix_overlap \/ ix_ops # {})
        /\ ix_ops' = IF r = "200" THEN ix_ops \cup {b} ELSE ix_ops
        /\ ix_waits' = IF retry
                       THEN [ix_waits EXCEPT ![b] = Append(@, WaitTime(ix_importer, r, ix_attempt))]
                       ELSE ix_waits
        /\ ix_result' = IF again \/ abort THEN ix_result
                        ELSE [ix_result EXCEPT ![b] = recorded]
        /\ ix_attempt' = IF again THEN ix_attempt + 1 ELSE 0
        /\ ix_batch' = IF again \/ abort \/ b = NumBatches THEN b ELSE b + 1
        /\ ix_pc' = CASE abort -> "raised"
                      [] again -> "post"
                      [] b = NumBatches -> "done"
                      [] OTHER -> "post"
        /\ UNCHANGED ix_importer

\* the corpus finishes an import operation
IX_OperationEnds(b) ==
    /\ b \in ix_ops
    /\ ix_ops' = ix_ops \ {b}
    /\ UNCHANGED <<ix_pc, ix_importer, ix_batch, ix_attempt, ix_resps, ix_waits,
                   ix_result, ix_overlap>>

\* the count the importer reports at the end: success (LITFL), submitted
\* (REBEL EM), len(operations) (API); ALiEM's main prints len(uris)
Reported ==
    IF ix_importer = "aliem" THEN NumBatches
    ELSE Cardinality({b \in Batches : ix_result[b] = "started"})

NextIndexer ==
    \/ (\E r \in Responses : IX_Post(r)) /\ UNCHANGED <<litflVars, aliemVars, ckVars, paVars, diVars, poVars, baVars, exVars, feVars, acVars, reVars>>
    \/ (\E b \in Batches : IX_OperationEnds(b)) /\ UNCHANGED <<litflVars, aliemVars, ckVars, paVars, diVars, poVars, baVars, exVars, feVars, acVars, reVars>>


\* ================================================== import and its polling
\* One import the corpus accepted (200 with an operation name), as done by
\* PMC's import_gcs_to_corpus, WikEM's _index_via_import and LITFL's
\* _index_via_import, with _poll_operation against a clock in seconds.  The
\* operation ends, with or without an error, when the corpus decides; a GET
\* of the operation takes up to MaxLatency seconds and may itself fail.
Indexers == {"pmc", "wikem", "litfl"}

InitPoll ==
    /\ LitflOff
    /\ AliemOff
    /\ CheckpointOff
    /\ PacingOff
    /\ DiscoveryOff
    /\ IndexerOff
    /\ BatchingOff
    /\ ExtractionOff
    /\ FetchOff
    /\ AccountingOff
    /\ ReindexOff
    /\ po_pc = "post"
    /\ po_indexer \in Indexers
    /\ po_op = "none"
    /\ po_now = 0
    /\ po_start = 0
    /\ po_interval = 0
    /\ po_sleeps = <<>>
    /\ po_why = "none"
    /\ po_ret = "none"
    /\ po_reported = "none"

\* LITFL returns True as soon as the import is accepted ("don't wait for each
\* file"); the other two call _poll_operation
Polls(indexer) == indexer # "litfl"

\* the POST is accepted and the operation starts
PO_Post ==
    /\ po_pc = "post"
    /\ po_op' = "running"
    /\ IF Polls(po_indexer)
       THEN /\ po_pc' = "poll"
            /\ po_start' = po_now
            /\ po_interval' = 5
            /\ UNCHANGED po_reported
       ELSE /\ po_pc' = "reported"
            /\ po_reported' = "True"
            /\ UNCHANGED <<po_start, po_interval>>
    /\ UNCHANGED <<po_indexer, po_now, po_sleeps, po_why, po_ret>>

\* the corpus ends the operation
PO_OperationEnds(result) ==
    /\ po_op = "running"
    /\ po_op' = result
    /\ UNCHANGED <<po_pc, po_indexer, po_now, po_start, po_interval, po_sleeps,
                   po_why, po_ret, po_reported>>

\* poll_interval after a sleep: PMC steps it up with the elapsed time taken
\* before the sleep, WikEM always sleeps 5
NextInterval(indexer, elapsed, interval) ==
    IF indexer # "pmc" THEN interval
    ELSE IF elapsed > 60 THEN 15
    ELSE IF elapsed > 30 THEN 10
    ELSE interval

\* the value _poll_operation returns: the response of a finished operation,
\* None for a failed GET, a remote error and a timeout alike
PollReturn(why) == IF why = "done" THEN "response" ELSE "None"

\* one round of the while loop of _poll_operation: the test of the elapsed
\* time, the GET, and either a return or the sleep
PO_Poll(getOk, d) ==
    LET elapsed == (po_now + d) - po_start
        why == CASE ~getOk -> "pollfail"
                 [] po_op = "error" -> "error"
                 [] OTHER -> "done"
    IN  /\ po_pc = "poll"
        /\ IF po_now - po_start >= MaxWait
           THEN /\ po_pc' = "returned"
                /\ po_why' = "timeout"
                /\ po_ret' = PollReturn("timeout")
                /\ UNCHANGED <<po_now, po_interval, po_sleeps>>
           ELSE IF getOk /\ po_op = "running"
           THEN /\ po_now' = po_now + d + po_interval
                /\ po_sleeps' = Append(po_sleeps, po_interval)
                /\ po_interval' = NextInterval(po_indexer, elapsed, po_interval)
                /\ UNCHANGED <<po_pc, po_why, po_ret>>
           ELSE /\ po_pc' = "returned"
                /\ po_now' = po_now + d
                /\ po_why' = why
                /\ po_ret' = PollReturn(why)
                /\ UNCHANGED <<po_interval, po_sleeps>>
        /\ UNCHANGED <<po_indexer, po_op, po_start, po_reported>>

\* what the import function makes of the poll: PMC returns True for a truthy
\* result and False otherwise, WikEM drops the result and returns True
PO_Report ==
    /\ po_pc = "returned"
    /\ po_pc' = "reported"
    /\ po_reported' = IF po_indexer = "wikem" \/ po_ret # "None" THEN "True" ELSE "False"
    /\ UNCHANGED <<po_indexer, po_op, po_now, po_start, po_interval, po_sleeps,
                   po_why, po_ret>>

NextPoll ==
    \/ PO_Post /\ UNCHANGED <<litflVars, aliemVars, ckVars, paVars, diVars, ixVars, baVars, exVars, feVars, acVars, reVars>>
    \/ (\E result \in {"ok", "error"} : PO_OperationEnds(result)) /\ UNCHANGED <<litflVars, aliemVars, ckVars, paVars, diVars, ixVars, baVars, exVars, feVars, acVars, reVars>>
    \/ (\E getOk \in BOOLEAN, d \in 0..MaxLatency : PO_Poll(getOk, d)) /\ UNCHANGED <<litflVars, aliemVars, ckVars, paVars, diVars, ixVars, baVars, exVars, feVars, acVars, reVars>>
    \/ PO_Report /\ UNCHANGED <<litflVars, aliemVars, ckVars, paVars, diVars, ixVars, baVars, exVars, feVars, acVars, reVars>>


\* ================================================================ batching
\* How the documents are spread over import calls: batch_import slices the
\* list, import_gcs_to_corpus sends one call whose single URI is the prefix
\* holding every uploaded document.  Documents are numbered in list order.
InitBatching ==
    /\ LitflOff
    /\ AliemOff
    /\ CheckpointOff
    /\ PacingOff
    /\ DiscoveryOff
    /\ IndexerOff
    /\ PollOff
    /\ ExtractionOff
    /\ FetchOff
    /\ AccountingOff
    /\ ReindexOff
    /\ ba_pc = "loop"
    /\ ba_importer \in {"rebelem", "pmc"}
    /\ ba_uris \in {[k \in 1..n |-> k] : n \in 0..MaxUris}
    /\ ba_i = 0
    /\ ba_calls = <<>>

\* uris[i : i + batch_size]
Slice(uris, i, size) == SubSeq(uris, i + 1, Min(i + size, Len(uris)))

\* one round of the for loop of batch_import, or the one call of
\* import_gcs_to_corpus
BA_Import ==
    /\ ba_pc = "loop"
    /\ IF ba_importer = "pmc"
       THEN /\ ba_calls' = <<ba_uris>>
            /\ ba_pc' = "done"
            /\ UNCHANGED ba_i
       ELSE IF ba_i >= Len(ba_uris)
       THEN /\ ba_pc' = "done"
            /\ UNCHANGED <<ba_i, ba_calls>>
       ELSE /\ ba_calls' = Append(ba_calls, Slice(ba_uris, ba_i, batch_size))
            /\ ba_i' = ba_i + batch_size
            /\ UNCHANGED ba_pc
    /\ UNCHANGED <<ba_importer, ba_uris>>

NextBatching == BA_Import /\ UNCHANGED <<litflVars, aliemVars, ckVars, paVars, diVars, ixVars, poVars, exVars, feVars, acVars, reVars>>


\* ============================================================== extraction
\* extract_page from the content element on: the walk of _extract_sections
\* and the result built from its sections.  A child of the content element is
\* a heading, another element, a loose text node or a noise element
\* (_strip_noise removes it; WikEM's table of contents gives no text).  The
\* text of child i is empty, its own word (the number i), a content-end
\* marker, or its word followed by a marker.  The page is extracted twice, at
\* different times.
Marker == 0

Kinds == {"h", "p", "loose", "noise"}

Shapes == {"empty", "w", "M", "wM"}

Pages == SeqsUpTo([kind : Kinds, shape : Shapes], MaxNodes)

Scrapers == {"litfl", "wikem", "rebelem", "aliem"}

\* child.get_text() / child.strip()
TextOf(page, i) ==
    CASE page[i].shape = "empty" -> <<>>
      [] page[i].shape = "w" -> <<i>>
      [] page[i].shape = "M" -> <<Marker>>
      [] OTHER -> <<i, Marker>>

\* CONTENT_END_MARKERS exists in the REBEL EM and ALiEM scrapers only
HasMarkers(scraper) == scraper \in {"rebelem", "aliem"}

\* text[:text.index(marker)]
RECURSIVE CutAtMarker(_)
CutAtMarker(text) ==
    IF text = <<>> \/ Head(text) = Marker THEN <<>>
    ELSE <<Head(text)>> \o CutAtMarker(Tail(text))

\* _flush / _flush_section
Flush(scraper, heading, parts, sections) ==
    LET text == IF HasMarkers(scraper) THEN CutAtMarker(parts) ELSE parts
    IN  IF text = <<>> THEN sections
        ELSE Append(sections, [heading |-> heading, content |-> text])

\* the for loop of _extract_sections from child i on, with the final flush;
\* heading 0 is "Introduction"
RECURSIVE Walk(_, _, _, _, _, _)
Walk(scraper, page, i, heading, parts, sections) ==
    IF i > Len(page) THEN Flush(scraper, heading, parts, sections)
    ELSE LET kind == page[i].kind
             text == TextOf(page, i)
             next(h, p, s) == Walk(scraper, page, i + 1, h, p, s)
         IN  CASE kind = "noise" -> next(heading, parts, sections)
               [] kind = "loose" ->
                      IF scraper = "wikem" \/ text = <<>> THEN next(heading, parts, sections)
                      ELSE IF HasMarkers(scraper) /\ Marker \in Elems(text)
                      THEN Flush(scraper, heading, parts, sections)
                      ELSE next(heading, parts \o text, sections)
               [] HasMarkers(scraper) /\ text # <<>> /\ Head(text) = Marker ->
                      Flush(scraper, heading, parts, sections)
               [] kind = "h" ->
                      IF scraper = "wikem" \/ text # <<>>
                      THEN next(i, <<>>, Flush(scraper, heading, parts, sections))
                      ELSE next(heading, parts, Flush(scraper, heading, parts, sections))
               [] OTHER -> next(heading, parts \o text, sections)

_extract_sections(scraper, page) == Walk(scraper, page, 1, 0, <<>>, <<>>)

\* "\n\n".join(s["content"] for s in sections); -1 stands for the separator
RECURSIVE FullText(_)
FullText(sections) ==
    IF sections = <<>> THEN <<>>
    ELSE IF Len(sections) = 1 THEN sections[1].content
    ELSE sections[1].content \o <<-1>> \o FullText(Tail(sections))

\* hashlib.sha256(text.encode()).hexdigest()[:16], as a 16-bit digest
RECURSIVE Digest(_, _)
Digest(text, h) ==
    IF text = <<>> THEN h
    ELSE Digest(Tail(text), (h * 31 + Head(text) + 2) % 65536)

_content_hash(text) == Digest(text, 7)


\* extract_page with the time of the extraction hashed in
BuildResultStamped(sections, now) ==
    [doc |-> TRUE,
     sections |-> sections,
     content_hash |-> _content_hash(FullText(sections) \o <<now>>),
     last_scraped |-> now]

\* the result dict of extract_page (doc: it is a dict, not None)
BuildResult(sections, now) ==
    [doc |-> TRUE,
     sections |-> sections,
     content_hash |-> _content_hash(FullText(sections)),
     last_scraped |-> now]

\* extract_page: every scraper but WikEM returns None when no section was
\* extracted
extract_page(scraper, page, now) ==
    LET sections == _extract_sections(scraper, page)
    IN  IF scraper # "wikem" /\ sections = <<>> THEN [doc |-> FALSE]
        ELSE BuildResult(sections, now)

InitExtraction ==
    /\ LitflOff
    /\ AliemOff
    /\ CheckpointOff
    /\ PacingOff
    /\ DiscoveryOff
    /\ IndexerOff
    /\ PollOff
    /\ BatchingOff
    /\ FetchOff
    /\ AccountingOff
    /\ ReindexOff
    /\ ex_pc = "run"
    /\ ex_scraper \in Scrapers
    /\ ex_page \in Pages
    /\ ex_now = 0
    /\ ex_results = <<>>

\* one extraction of the page; the clock has moved on when it is over
EX_Extract ==
    /\ ex_pc = "run"
    /\ ex_results' = Append(ex_results, extract_page(ex_scraper, ex_page, ex_now))
    /\ ex_now' = ex_now + 1
    /\ ex_pc' = IF Len(ex_results) = 1 THEN "done" ELSE "run"
    /\ UNCHANGED <<ex_scraper, ex_page>>

NextExtraction == EX_Extract /\ UNCHANGED <<litflVars, aliemVars, ckVars, paVars, diVars, ixVars, poVars, baVars, feVars, acVars, reVars>>


\* ============================================================= page fetches
\* scrape_slug -> extract_page -> fetch of the LITFL and ALiEM scrapers, for
\* each slug of a run, in any order.  A GET ends with a response, with an
\* HTTP error status, or with a transient network error (timeout, connection
\* reset); a page that was fetched is taken to extract well.
GetOutcomes == {"ok", "http error", "timeout", "reset"}

Transient == {"timeout", "reset"}

InitFetch ==
    /\ LitflOff
    /\ AliemOff
    /\ CheckpointOff
    /\ PacingOff
    /\ DiscoveryOff
    /\ IndexerOff
    /\ PollOff
    /\ BatchingOff
    /\ ExtractionOff
    /\ AccountingOff
    /\ ReindexOff
    /\ fe_pc = "run"
    /\ fe_gets = [s \in Slugs |-> <<>>]
    /\ fe_status = [s \in Slugs |-> "pending"]

\* fetch: one session.get; any requests.RequestException gives None
fetch(o) == IF o = "ok" THEN "resp" ELSE "None"

\* scrape_slug for slug s, whose GET ends with o
FE_Scrape(s, o) ==
    /\ fe_pc = "run"
    /\ fe_status[s] = "pending"
    /\ fe_gets' = [fe_gets EXCEPT ![s] = Append(@, o)]
    /\ fe_status' = [fe_status EXCEPT ![s] = IF fetch(o) = "None" THEN "error" ELSE "success"]
    /\ UNCHANGED fe_pc

NextFetch == (\E s \in Slugs, o \in GetOutcomes : FE_Scrape(s, o)) /\ UNCHANGED <<litflVars, aliemVars, ckVars, paVars, diVars, ixVars, poVars, baVars, exVars, acVars, reVars>>


\* ============================================================== accounting
\* bulk_scrape of the WikEM and PMC scrapers once every entry is submitted:
\* the pool threads run scrape_single, whose record_* calls count under
\* tracker.lock, and the main thread collects the futures.  "x += 1" is a
\* read followed by a write.
InitAccounting ==
    /\ LitflOff
    /\ AliemOff
    /\ CheckpointOff
    /\ PacingOff
    /\ DiscoveryOff
    /\ IndexerOff
    /\ PollOff
    /\ BatchingOff
    /\ ExtractionOff
    /\ FetchOff
    /\ ReindexOff
    /\ ac_pc = "collect"
    /\ ac_scraper \in {"wikem", "pmc"}
    /\ ac_force \in BOOLEAN
    /\ ac_cached \in SUBSET Slugs
    /\ ac_futures = [s \in Slugs |-> "queued"]
    /\ ac_w = [w \in Threads |-> IdleThread]
    /\ ac_tracker = [scraped |-> 0, skipped |-> 0, errors |-> 0]
    /\ ac_lock = 0
    /\ ac_outcome = [s \in Slugs |-> "untried"]

\* the record_* call scrape_single ends with, as the counter it advances: a
\* cached entry is skipped unless forced, a result is a success, None or an
\* exception is an error
Recorded(force, cached, slug, o) ==
    IF ~force /\ slug \in cached THEN "skipped"
    ELSE IF o = "success" THEN "scraped"
    ELSE "errors"

\* a pool thread takes the oldest queued entry and runs scrape_single up to
\* its record_* call
AC_Scrape(w, s, o) ==
    /\ ac_pc = "collect"
    /\ ac_w[w].pc = "idle"
    /\ \A v \in Threads : ac_w[v].pc = "idle" => w <= v
    /\ ac_futures[s] = "queued"
    /\ \A y \in Slugs : ac_futures[y] = "queued" => s <= y
    /\ ac_futures' = [ac_futures EXCEPT ![s] = "running"]
    /\ ac_w' = [ac_w EXCEPT ![w] = [pc |-> "lock", slug |-> s,
                                    op |-> Recorded(ac_force, ac_cached, s, o), tmp |-> 0]]
    /\ ac_outcome' = [ac_outcome EXCEPT ![s] = Recorded(ac_force, ac_cached, s, o)]
    /\ UNCHANGED <<ac_pc, ac_scraper, ac_force, ac_cached, ac_tracker, ac_lock>>

\* record_* without "with self.lock"
AcLockIgnored == TRUE

\* "with self.lock:" may be entered
AcLockFree == ac_lock = 0

\* with self.lock: ... += 1, the read
AC_Load(w) ==
    /\ ac_pc # "off"
    /\ ac_w[w].pc = "lock"
    /\ AcLockFree
    /\ ac_lock' = w
    /\ ac_w' = [ac_w EXCEPT ![w].pc = "store", ![w].tmp = ac_tracker[ac_w[w].op]]
    /\ UNCHANGED <<ac_pc, ac_scraper, ac_force, ac_cached, ac_futures, ac_tracker, ac_outcome>>

\* the write; the with-block ends, scrape_single returns, the future is done
AC_Store(w) ==
    /\ ac_pc # "off"
    /\ ac_w[w].pc = "store"
    /\ ac_tracker' = [ac_tracker EXCEPT ![ac_w[w].op] = ac_w[w].tmp + 1]
    /\ ac_lock' = IF ac_lock = w THEN 0 ELSE ac_lock
    /\ ac_futures' = [ac_futures EXCEPT ![ac_w[w].slug] = "done"]
    /\ ac_w' = [ac_w EXCEPT ![w] = IdleThread]
    /\ UNCHANGED <<ac_pc, ac_scraper, ac_force, ac_cached, ac_outcome>>

\* "for future in as_completed(futures)": future.result() returns, since
\* scrape_single catches every exception
AC_Collect(s) ==
    /\ ac_pc = "collect"
    /\ ac_futures[s] = "done"
    /\ ac_futures' = [ac_futures EXCEPT ![s] = "collected"]
    /\ ac_pc' = IF \A y \in Slugs \ {s} : ac_futures[y] = "collected" THEN "done" ELSE "collect"
    /\ UNCHANGED <<ac_scraper, ac_force, ac_cached, ac_w, ac_tracker, ac_lock, ac_outcome>>

NextAccounting ==
    \/ (\E w \in Threads, s \in Slugs, o \in Outcomes : AC_Scrape(w, s, o)) /\ UNCHANGED <<litflVars, aliemVars, ckVars, paVars, diVars, ixVars, poVars, baVars, exVars, feVars, reVars>>
    \/ (\E w \in Threads : AC_Load(w)) /\ UNCHANGED <<litflVars, aliemVars, ckVars, paVars, diVars, ixVars, poVars, baVars, exVars, feVars, reVars>>
    \/ (\E w \in Threads : AC_Store(w)) /\ UNCHANGED <<litflVars, aliemVars, ckVars, paVars, diVars, ixVars, poVars, baVars, exVars, feVars, reVars>>
    \/ (\E s \in Slugs : AC_Collect(s)) /\ UNCHANGED <<litflVars, aliemVars, ckVars, paVars, diVars, ixVars, poVars, baVars, exVars, feVars, reVars>>


\* ============================================================ PMC re-index
\* reindex(): upload, delete the old corpus, create a new one, import, save
\* the config.  The config names no corpus or the old one, which exists when
\* reindex() starts.  Each remote call ends as the remote side decides.
InitReindex ==
    /\ LitflOff
    /\ AliemOff
    /\ CheckpointOff
    /\ PacingOff
    /\ DiscoveryOff
    /\ IndexerOff
    /\ PollOff
    /\ BatchingOff
    /\ ExtractionOff
    /\ FetchOff
    /\ AccountingOff
    /\ re_pc = "upload"
    /\ re_flags \in [skip_upload : BOOLEAN, upload_only : BOOLEAN, dry_run : BOOLEAN]
    /\ re_config \in {"none", "old"}
    /\ re_corpora = IF re_config = "old" THEN {"old"} ELSE {}
    /\ re_import = "none"
    /\ re_how = ""

\* reindex() returns
Returns(h) ==
    /\ re_pc' = "returned"
    /\ re_how' = h

\* step 1: upload_md_files_to_gcs uploads n files, and --upload-only
RE_Upload(n) ==
    /\ re_pc = "upload"
    /\ IF ~re_flags.skip_upload /\ n = 0 THEN Returns("no files")
       ELSE IF re_flags.upload_only THEN Returns("upload only")
       ELSE re_pc' = "delete" /\ re_how' = re_how
    /\ UNCHANGED <<re_flags, re_config, re_corpora, re_import>>

\* step 2: delete_corpus(old_corpus_name).  r is the answer to the DELETE:
\* "error" a status other than 200/201/404, "deleted" the operation removed
\* the corpus, "unfinished" the poll of the operation gave None (its result is
\* not looked at, delete_corpus returns True)
RE_Delete(r) ==
    /\ re_pc = "delete"
    /\ IF re_config = "none" \/ re_flags.dry_run
       THEN re_pc' = "create" /\ UNCHANGED <<re_corpora, re_how>>
       ELSE IF r = "error"
       THEN Returns("delete failed") /\ UNCHANGED re_corpora
       ELSE /\ re_pc' = "create"
            /\ re_corpora' = IF r = "deleted" THEN re_corpora \ {re_config} ELSE re_corpora
            /\ UNCHANGED re_how
    /\ UNCHANGED <<re_flags, re_config, re_import>>

\* step 3: create_corpus().  r is the answer to the POST: "error" a status
\* other than 200/201, "created" the poll of the operation returned the
\* corpus, "unfinished" the poll gave None while the remote side went on to
\* create the corpus (create_corpus returns ("", ""))
RE_Create(r) ==
    /\ re_pc = "create"
    /\ IF re_flags.dry_run
       THEN re_pc' = "import" /\ UNCHANGED <<re_corpora, re_how>>
       ELSE IF r = "created"
       THEN /\ re_pc' = "import"
            /\ re_corpora' = re_corpora \cup {"new"}
            /\ UNCHANGED re_how
       ELSE /\ Returns("create failed")
            /\ re_corpora' = IF r = "unfinished" THEN re_corpora \cup {"new"} ELSE re_corpora
    /\ UNCHANGED <<re_flags, re_config, re_import>>

\* step 4: success = import_gcs_to_corpus(corpus_name)
RE_Import(ok) ==
    /\ re_pc = "import"
    /\ re_import' = IF re_flags.dry_run \/ ok THEN "ok" ELSE "failed"
    /\ re_pc' = "save"
    /\ UNCHANGED <<re_flags, re_config, re_corpora, re_how>>

\* "if not dry_run: save_config(corpus_name, corpus_id)", and the summary
RE_Save ==
    /\ re_pc = "save"
    /\ re_config' = IF re_flags.dry_run THEN re_config ELSE "new"
    /\ Returns("complete")
    /\ UNCHANGED <<re_flags, re_corpora, re_import>>

NextReindex ==
    \/ (\E n \in 0..1 : RE_Upload(n)) /\ UNCHANGED <<litflVars, aliemVars, ckVars, paVars, diVars, ixVars, poVars, baVars, exVars, feVars, acVars>>
    \/ (\E r \in {"error", "deleted", "unfinished"} : RE_Delete(r)) /\ UNCHANGED <<litflVars, aliemVars, ckVars, paVars, diVars, ixVars, poVars, baVars, exVars, feVars, acVars>>
    \/ (\E r \in {"error", "created", "unfinished"} : RE_Create(r)) /\ UNCHANGED <<litflVars, aliemVars, ckVars, paVars, diVars, ixVars, poVars, baVars, exVars, feVars, acVars>>
    \/ (\E ok \in BOOLEAN : RE_Import(ok)) /\ UNCHANGED <<litflVars, aliemVars, ckVars, paVars, diVars, ixVars, poVars, baVars, exVars, feVars, acVars>>
    \/ RE_Save /\ UNCHANGED <<litflVars, aliemVars, ckVars, paVars, diVars, ixVars, poVars, baVars, exVars, feVars, acVars>>

\* ========================================================== specifications
InitLitflOnly == InitLitfl /\ AliemOff /\ MoreOff

Init == InitLitflOnly \/ InitAliem

Next == NextLitfl \/ NextAliem

Spec == Init /\ [][Next]_vars

SpecLitfl == InitLitflOnly /\ [][NextLitfl]_vars

SpecLitflCrash == InitLitflOnly /\ [][NextLitfl \/ KillLitfl]_vars

SpecLitflInterrupt == InitLitflOnly /\ [][NextLitfl \/ InterruptLitfl]_vars

SpecLitflStartup == InitLitflOnly /\ [][NextLitfl \/ StartupLitfl]_vars

SpecAliem == InitAliem /\ [][NextAliem]_vars

SpecAliemInterrupt == InitAliem /\ [][NextAliem \/ InterruptAliem]_vars

SpecCheckpoint == InitCheckpoint /\ [][NextCheckpoint]_vars

SpecPacing == InitPacing /\ [][NextPacing]_vars

SpecDiscovery == InitDiscovery /\ [][NextDiscovery]_vars

SpecIndexer == InitIndexer /\ [][NextIndexer]_vars

SpecPoll == InitPoll /\ [][NextPoll]_vars

SpecBatching == InitBatching /\ [][NextBatching]_vars

SpecExtraction == InitExtraction /\ [][NextExtraction]_vars

SpecFetch == InitFetch /\ [][NextFetch]_vars

SpecReindex == InitReindex /\ [][NextReindex]_vars

\* the ALiEM run or the WikEM / PMC accounting
SpecAccounting == (InitAliem \/ InitAccounting) /\ [][NextAliem \/ NextAccounting]_vars

\* ================================================================== claims
\* the modes of the orchestrator, from the flags
IsNormal(a) == ~a.resume /\ ~a.force /\ ~a.retry_errors

IsResume(a) == a.resume /\ ~a.force /\ ~a.retry_errors

IsRetryErrorsOnly(a) == a.retry_errors /\ ~a.resume

NoLimit(a) == a.limit = 0

Failed(o) == o \in {"none", "raise"}

\* the records of d for slug s
RecordsOf(d, s) == {i \in 1..Len(d) : d[i].slug = s}

\* C1: manifest [A, B, C]; run 1 (Normal) completes all but B and records an
\* error for B; run 2 in Resume mode dispatches exactly [B], and if B succeeds
\* the tracker and the two files end with completed = {A, B, C}, errors = {}.
C1_ResumeAfterPartialFailure ==
    \A b \in Slugs :
        ( /\ pc = "done" /\ how = "completed"
          /\ IsResume(args) /\ NoLimit(args)
          /\ IsNormal(prevArgs) /\ NoLimit(prevArgs)
          /\ prevCompleted = Slugs \ {b}
          /\ loaded.completed = Slugs \ {b}
          /\ Keys(loaded.errors) = {b}
          /\ outcome[b] = "success" )
        => /\ slugs_to_scrape = <<b>>
           /\ tracker.completed = Slugs
           /\ FileSet(PROGRESS_FILE) = Slugs
           /\ tracker.errors = <<>>
           /\ FileKeys(ERROR_FILE) = {}

\* C2: no key is both in completedKeys and in errors, in the tracker of any
\* run in any mode.
C2_CompletedNotInErrors ==
    tracker.completed \cap Keys(tracker.errors) = {}

\* C3: when the workers have reported all their outcomes to the one tracker,
\* it holds exactly one recorded completion per entry, and exactly as many
\* successes as there were successful extractions (no lost update).
C3_NoLostUpdates ==
    a_pc = "done" =>
        LET ok == {s \in Slugs : a_outcome[s] = "success"}
            res == a_tracker.results
        IN /\ a_tracker.completed = NumSlugs
           /\ a_tracker.succeeded = Cardinality(ok)
           /\ \A s \in ok :
                Cardinality({i \in 1..Len(res) : res[i].slug = s /\ res[i].status = "success"}) = 1
           /\ Len(res) + Len(a_tracker.errors) = NumSlugs

\* every entry succeeded and the tracker was saved at the end of the run
C3_Witness ==
    /\ a_pc = "done"
    /\ \A s \in Slugs : a_outcome[s] = "success"
    /\ a_tracker.succeeded = NumSlugs
    /\ NumSlugs >= MaxWorkers
    /\ MaxWorkers >= 2

\* C4: every snapshot save() writes is the state between two whole record
\* operations: completed = succeeded + failed + skipped, and the results list
\* agrees with the counters.
C4_SaveSeesWholeUpdates ==
    a_LOG_FILE.st = "ok" =>
        LET d == a_LOG_FILE.data
        IN /\ d.completed = d.succeeded + d.failed + d.skipped
           /\ Len(d.results) = d.succeeded + d.skipped

\* C5: whenever the process has stopped, also in the middle of save(), each of
\* the two files is a complete record (the previous or the new one).
C5_SaveAtomicOnCrash ==
    pc = "idle" => PROGRESS_FILE.st # "partial" /\ ERROR_FILE.st # "partial"

C7_ResumeIdempotentAnyLimit ==
    ( /\ pc = "done" /\ how # "raised"
      /\ run >= 2
      /\ IsResume(args)
      /\ IsResume(prevArgs)
      /\ \A s \in Slugs :
            (outcome[s] # "untried" /\ lastAttempt[s] # "untried")
                => outcome[s] = lastAttempt[s] )
    => /\ tracker.completed = prevCompleted
       /\ FileSet(PROGRESS_FILE) = prevCompleted

\* C7 as amended: two Resume runs in a row over the manifest, neither cut by
\* --limit, every entry attempted in both having the same outcome: the second
\* run ends with the completed keys the first run ended with, in the tracker
\* and in the progress file.
C7_ResumeIdempotent ==
    ( /\ pc = "done" /\ how # "raised"
      /\ run >= 2
      /\ IsResume(args) /\ NoLimit(args)
      /\ IsResume(prevArgs) /\ NoLimit(prevArgs)
      /\ \A s \in Slugs :
            (outcome[s] # "untried" /\ lastAttempt[s] # "untried")
                => outcome[s] = lastAttempt[s] )
    => /\ tracker.completed = prevCompleted
       /\ FileSet(PROGRESS_FILE) = prevCompleted

\* the second Resume run retried an entry that failed in the first and failed
\* again, next to entries the first run completed
C7_Witness ==
    /\ pc = "done" /\ how = "completed"
    /\ run >= 2
    /\ IsResume(args) /\ NoLimit(args)
    /\ IsResume(prevArgs) /\ NoLimit(prevArgs)
    /\ prevCompleted # {}
    /\ slugs_to_scrape # <<>>
    /\ \A s \in Slugs :
          (outcome[s] # "untried" /\ lastAttempt[s] # "untried")
              => outcome[s] = lastAttempt[s]

\* C8: in a RetryErrorsOnly run the list to scrape is the keys of the loaded
\* errors, each once; no dispatched key has an old error record left while it
\* is re-attempted; and a key whose retry failed ends with exactly one record,
\* written in this run, in the tracker and in the errors file.
C8_RetryErrorsOnly ==
    IsRetryErrorsOnly(args) =>
        /\ pc \notin {"load", "select"} =>
              /\ Elems(slugs_to_scrape) = Keys(loaded.errors)
              /\ Len(slugs_to_scrape) = Cardinality(Keys(loaded.errors))
        /\ \A i \in 1..Len(futures) :
              futures[i].state # "unsubmitted" =>
                  \A j \in RecordsOf(tracker.errors, slugs_to_scrape[i]) :
                      tracker.errors[j].ts = run
        /\ (pc = "done" /\ how = "completed") =>
              \A s \in Slugs :
                  Failed(outcome[s]) =>
                      /\ Cardinality(RecordsOf(tracker.errors, s)) = 1
                      /\ \A j \in RecordsOf(tracker.errors, s) : tracker.errors[j].ts = run
                      /\ ERROR_FILE.st = "ok"
                      /\ Cardinality(RecordsOf(ERROR_FILE.data, s)) = 1
                      /\ \A j \in RecordsOf(ERROR_FILE.data, s) : ERROR_FILE.data[j].ts = run

\* C9: between runs the errors file lists exactly the keys whose latest
\* attempt failed.
C9_ErrorFileIsLatestFailures ==
    pc = "idle" => FileKeys(ERROR_FILE) = {s \in Slugs : Failed(lastAttempt[s])}

\* C10: no future holds an exception; and when the run has completed, every
\* dispatched entry was collected and recorded: a success in completed, a
\* failure as an error record of this run, none of them lost.
C10_FailureIsolation ==
    /\ \A i \in 1..Len(futures) :
          futures[i].state \in {"done", "collected"} => futures[i].result.status # "exception"
    /\ (pc = "done" /\ how = "completed") =>
          /\ completed + errors = Len(slugs_to_scrape)
          /\ \A i \in 1..Len(slugs_to_scrape) :
                LET s == slugs_to_scrape[i]
                IN /\ futures[i].state = "collected"
                   /\ outcome[s] = "success" => s \in tracker.completed
                   /\ Failed(outcome[s]) =>
                          \E j \in RecordsOf(tracker.errors, s) : tracker.errors[j].ts = run

\* one run in which an entry raised, another returned None and a third succeeded
C10_Witness ==
    /\ pc = "done" /\ how = "completed"
    /\ \E s \in Slugs : outcome[s] = "raise"
    /\ \E s \in Slugs : outcome[s] = "none"
    /\ \E s \in Slugs : outcome[s] = "success" /\ s \in tracker.completed

\* the multiples of k from m up to n, in order
RECURSIVE Multiples(_, _, _)
Multiples(k, m, n) == IF m > n THEN <<>> ELSE <<m>> \o Multiples(k, m + k, n)

\* C11: in a run that has completed, save() was called in the loop once for
\* each multiple of the interval that the number of finished entries reached
\* (25, 50, ... for LITFL, 20, 40, ... for ALiEM), and once more after the loop.
C11_CheckpointEveryInterval ==
    ck_pc = "done" =>
        /\ ck_saves = Multiples(Interval, Interval, NumPages)
        /\ ck_final = 1

\* C12: once the interrupt has arrived, no entry that was still waiting is
\* started; and when the process then exits, every entry that was in flight has
\* run to its end and save() has written the tracker's state to the progress
\* file.
C12_Cancellation ==
    [][ /\ pc = "unwind" =>
            \A i \in 1..Len(futures) :
                futures[i].state = "queued" => futures'[i].state = "queued"
        /\ (pc = "unwind" /\ pc' = "done") =>
            /\ \A i \in 1..Len(futures) : futures'[i].state # "running"
            /\ PROGRESS_FILE'.st = "ok"
            /\ FileSet(PROGRESS_FILE') = tracker'.completed
      ]_vars

\* C13: between any two consecutive submissions to the worker pool at least
\* one full delay has passed.
C13_DispatchPacing ==
    \A i \in 1..(Len(pa_times) - 1) : pa_times[i + 1] - pa_times[i] >= DelayTicks

\* C14: a process that found no discovery file has dispatched nothing and
\* exits with a non-zero status; a process that ran to the end exits with
\* status 0, also when entries failed.
C14_StartupFailureExitCode ==
    pc = "done" =>
        /\ how = "no discovery" =>
              /\ \A i \in 1..Len(futures) : futures[i].state = "unsubmitted"
              /\ ExitCode(how) # 0
        /\ how = "completed" => ExitCode(how) = 0

\* the keys of a list of entries
EntryKeys(es) == {es[k].key : k \in 1..Len(es)}

\* the first entry for a key in what the fetched sources list, in loop order
FirstSource(key) ==
    CHOOSE i \in di_fetched :
        /\ key \in Elems(di_sources[i])
        /\ \A j \in di_fetched : key \in Elems(di_sources[j]) => i <= j

\* C15: in the persisted manifest every key appears once, with the origin of
\* its first occurrence.
C15_ManifestDeduplicated ==
    (di_pc = "done" /\ di_manifest.st = "ok") =>
        LET es == di_manifest.data
        IN /\ \A k, l \in 1..Len(es) : es[k].key = es[l].key => k = l
           /\ \A k \in 1..Len(es) : es[k].source = FirstSource(es[k].key)

\* C16: a discovery run ends normally, whichever sources failed to be fetched,
\* and what it returns holds exactly the keys of the sources that were fetched.
C16_DiscoverySurvivesFetchFailure ==
    /\ di_pc # "raised"
    /\ di_pc \in {"collected", "done"} =>
          EntryKeys(di_all) = UNION {Elems(di_sources[i]) : i \in di_fetched}


\* the retry loop of batch b has ended
Settled(b) == ix_result[b] # "pending" \/ ix_pc = "raised" \/ ix_pc = "done"

\* C17: a submission is retried exactly when the corpus answered 429 or 400
\* FAILED_PRECONDITION: such an answer is followed by another POST of the same
\* batch while attempts remain, any other answer ends the batch at once; the
\* number of attempts is bounded and the delays between them grow.
C17_RetryClassification ==
    \A b \in Batches :
        LET rs == ix_resps[b]
            ws == ix_waits[b]
        IN  /\ Len(rs) <= MaxAttempts(ix_importer)
            /\ \A k \in 1..Len(rs) :
                   /\ k < Len(rs) => rs[k] \in {"429", "busy"}
                   /\ (rs[k] \in {"429", "busy"} /\ k = Len(rs) /\ k < MaxAttempts(ix_importer))
                          => ~Settled(b)
            /\ \A k \in 1..(Len(ws) - 1) : ws[k + 1] >= ws[k]


\* C18: whatever happens to one batch (a permanent HTTP error, the retries
\* running out, a request that fails), every later batch is still posted:
\* when the run has ended, each batch was posted at least once.
C18_BatchErrorsDoNotBlock ==
    ix_pc \in {"done", "raised"} => \A b \in Batches : Len(ix_resps[b]) >= 1


\* C19: a submission answered with rate-limit responses is retried: after
\* one, two or three 429s in a row it is still being retried, and when the
\* fourth answer is a success it has been retried exactly three times, each
\* delay longer than the one before, and is recorded as started.  A
\* submission that never succeeds stops within the maximum number of attempts
\* and is then on record as failed, and the count of submitted batches the
\* importer reports does not include it.
C19_BackoffTermination ==
    \A b \in Batches :
        LET rs == ix_resps[b]
            ws == ix_waits[b]
        IN  /\ (rs \in {<<"429">>, <<"429", "429">>, <<"429", "429", "429">>})
                   => ~Settled(b)
            /\ rs = <<"429", "429", "429", "200">>
                   => /\ ix_result[b] = "started"
                      /\ Len(ws) = 3
                      /\ ws[1] < ws[2] /\ ws[2] < ws[3]
            /\ Len(rs) <= MaxAttempts(ix_importer)
            /\ (ix_pc = "done" /\ \A k \in 1..Len(rs) : rs[k] # "200")
                   => ix_result[b] = "failed"
            /\ ix_pc = "done"
                   => Reported = Cardinality({c \in Batches : ix_result[c] = "started"})


\* C20: at most one import operation of the indexer is running on the corpus
\* at any time, and the indexer posts a batch only when the operation of the
\* batch before it is no longer running: no POST is ever sent while an
\* operation is running.
C20_SingleWriter ==
    /\ Cardinality(ix_ops) <= 1
    /\ ~ix_overlap


\* C21: an accepted import is polled and then ends in exactly one of Done,
\* Failed and TimedOut, and the importer reports success for it only when the
\* polled operation finished without error: once the import function has
\* returned, the operation was polled to a result, and a reported success
\* means that the poll saw the operation done without error.
C21_ImportStateMachine ==
    po_pc = "reported" =>
        /\ po_why \in {"done", "error", "pollfail", "timeout"}
        /\ po_reported = "True" => (po_why = "done" /\ po_op = "ok")


\* C22: _poll_operation returns within max_wait of its start, the delays it
\* sleeps never decrease, and from the value it returns the caller can tell a
\* timeout from a remote error: the value returned for a remote error is not
\* the value returned for a timeout.
C22_PollUntilDone ==
    po_pc \in {"returned", "reported"} /\ po_why # "none" =>
        /\ po_now - po_start <= MaxWait
        /\ \A k \in 1..(Len(po_sleeps) - 1) : po_sleeps[k] <= po_sleeps[k + 1]
        /\ po_why = "error" => po_ret # PollReturn("timeout")
        /\ po_why = "timeout" => po_ret # PollReturn("error")


RECURSIVE Flatten(_)
Flatten(qs) == IF qs = <<>> THEN <<>> ELSE Head(qs) \o Flatten(Tail(qs))

\* C23: every import call carries at most 25 documents, and the calls are
\* consecutive slices of the list: put end to end in the order they were
\* sent they give back the list, every document once and in order.
C23_BatchSizeBound ==
    /\ \A c \in 1..Len(ba_calls) : Len(ba_calls[c]) <= batch_size
    /\ ba_pc = "done" => Flatten(ba_calls) = ba_uris


\* C24: a document returned as a successful extraction has at least one
\* section: extract_page never returns a document whose sections list is
\* empty.
C24_SectionsNonEmpty ==
    \A r \in 1..Len(ex_results) :
        ex_results[r].doc => ex_results[r].sections # <<>>


C26_ContentEndTruncation ==
    HasMarkers(ex_scraper) =>
        \A r \in 1..Len(ex_results), k \in 1..Len(ex_page) :
            (/\ ex_results[r].doc
             /\ ex_page[k].kind \in {"p", "loose"}
             /\ Marker \in Elems(TextOf(ex_page, k)))
            => \A s \in Elems(ex_results[r].sections) :
                   /\ s.heading <= k
                   /\ \A w \in Elems(s.content) : w # Marker /\ w <= k


\* C27: a transient network error on a page fetch is retried before it
\* counts: a slug is recorded as an error for a transient failure only after
\* its GET was tried again at least once and the last try failed too.
C27_TransientRetried ==
    \A s \in Slugs :
        (fe_status[s] = "error" /\ fe_gets[s][Len(fe_gets[s])] \in Transient)
            => Len(fe_gets[s]) >= 2


\* C28: when a bulk scrape has completed normally every dispatched entry was
\* recorded exactly once: in ALiEM completed equals the total and the three
\* counters add up to it; in WikEM and PMC scraped + skipped + errors equals
\* the number dispatched, each counter being the number of entries that ended
\* that way.
C28_ExactlyOnceAccounting ==
    /\ a_pc = "done" =>
           /\ a_tracker.completed = a_tracker.total
           /\ a_tracker.succeeded + a_tracker.failed + a_tracker.skipped = a_tracker.total
    /\ ac_pc = "done" =>
           /\ ac_tracker.scraped + ac_tracker.skipped + ac_tracker.errors = NumSlugs
           /\ \A k \in {"scraped", "skipped", "errors"} :
                  ac_tracker[k] = Cardinality({s \in Slugs : ac_outcome[s] = k})

\* a WikEM / PMC run that ended with a success, a skip and an error
C28_Witness ==
    /\ ac_pc = "done"
    /\ ac_tracker.scraped >= 1
    /\ ac_tracker.skipped >= 1
    /\ ac_tracker.errors >= 1


\* C29: the persisted progress only grows from run to run: when a process
\* has ended, every key that was in completed_slugs of the progress file when
\* the process before it exited is still in it.
C29_PersistedProgressMonotonic ==
    pc = "done" => prevFile \subseteq FileSet(PROGRESS_FILE)


\* C30: whenever reindex() has returned, at whatever step, the corpus named
\* in the saved config exists, and the config names the new corpus only when
\* that corpus was created and its import succeeded.
C30_ReindexKeepsCorpus ==
    re_pc = "returned" =>
        /\ re_config # "none" => re_config \in re_corpora
        /\ re_config = "new" => re_import = "ok"

====
